---- MODULE Spec2Model ----
(***************************************************************************)
(* Bite Me Buddy Admin: the order repository (models.py), the chart and    *)
(* formatting helpers (utils.py) and the Flask route layer (app.py).       *)
(*                                                                         *)
(* The committed database is the tables orders, order_logs, payments,     *)
(* order_items and users.  A worker handles one HTTP request (or one       *)
(* direct repository call) at a time; update_order_status is modelled      *)
(* statement by statement so that a data-access fault can strike between   *)
(* any two statements of its transaction.                                  *)
(***************************************************************************)
EXTENDS Integers, Sequences, FiniteSets, TLC

VARIABLES
    orders,       \* committed table orders: order_id -> row
    order_logs,   \* committed table order_logs: sequence of rows, in insertion order
    payments,     \* committed table payments: order_id -> payment_status (at most one per order)
    order_items,  \* committed table order_items: sequence of rows
    users,        \* committed table users: set of user ids
    admin_db,     \* the admin tables that exist, and the rows of admin_settings
    now,          \* ist_now(), in ticks
    session,      \* the Flask session cookie
    pc,           \* per worker: position inside update_order_status
    call,         \* per worker: arguments of the running update_order_status
    old_status,   \* per worker: local variable old_status of update_order_status
    txn,          \* per worker: uncommitted writes of the worker's connection
    conns,        \* per worker: number of open database connections
    db_ops,       \* per worker: statements executed for the current request
    ret,          \* per worker: value returned by the last repository call
    resp,         \* per worker: the last HTTP response
    pre,          \* per worker: committed orders / order_logs when the call started
    fault,        \* per worker: the statement at which a data-access fault struck the call
    query         \* last result of a read-only repository function

db_vars == <<orders, order_logs, payments, order_items, users, admin_db>>
static_vars == <<payments, order_items, users, admin_db, now>>
worker_vars == <<pc, call, old_status, txn, conns, db_ops, ret, resp, pre, fault>>
vars == <<orders, order_logs, payments, order_items, users, admin_db, now, session,
          pc, call, old_status, txn, conns, db_ops, ret, resp, pre, fault, query>>

----------------------------------------------------------------------------
(* Bounds of the model *)

\* the order_logs table is cut off at this many rows
MaxLogs == 2
\* workers 1..NumWorkers exist; the sequential specification drives worker 1
NumWorkers == 2

Workers == 1 .. NumWorkers
\* order ids that exist in the orders table / an id that does not
OrderIds == {1, 2}
MissingOrderId == Cardinality(OrderIds) + 1
CallOrderIds == OrderIds \cup {MissingOrderId}

----------------------------------------------------------------------------
(* Python and SQL values *)

PyNone == [tag |-> "none", chars |-> <<>>, n |-> 0]
PyStr(cs) == [tag |-> "str", chars |-> cs, n |-> 0]
PyInt(k) == [tag |-> "int", chars |-> <<>>, n |-> k]

SqlNull == [isnull |-> TRUE, n |-> 0]
SqlInt(k) == [isnull |-> FALSE, n |-> k]

Digits == {"0", "1", "2", "3", "4", "5", "6", "7", "8", "9"}

DigitVal(c) ==
    CASE c = "0" -> 0 [] c = "1" -> 1 [] c = "2" -> 2 [] c = "3" -> 3
      [] c = "4" -> 4 [] c = "5" -> 5 [] c = "6" -> 6 [] c = "7" -> 7
      [] c = "8" -> 8 [] OTHER -> 9

RECURSIVE DecimalVal(_)
DecimalVal(cs) ==
    IF cs = <<>> THEN 0
    ELSE 10 * DecimalVal(SubSeq(cs, 1, Len(cs) - 1)) + DigitVal(cs[Len(cs)])

RECURSIVE IntText(_)
\* the decimal text of a natural number: CAST(order_id AS TEXT), str(k)
IntText(k) ==
    IF k < 10 THEN <<CHOOSE c \in Digits : DigitVal(c) = k>>
    ELSE IntText(k \div 10) \o <<CHOOSE c \in Digits : DigitVal(c) = k % 10>>

\* The statuses of the Order entity.
Statuses == {"pending", "confirmed", "processing", "shipped", "delivered",
             "cancelled", "refunded"}

\* config.py: ADMIN_USERNAME / ADMIN_PASSWORD defaults
ADMIN_USERNAME == <<"a", "d", "m", "i", "n">>
ADMIN_PASSWORD == <<"a", "d", "m", "i", "n", "1", "2", "3">>

----------------------------------------------------------------------------
(* Python strings as sequences of characters *)

LowerLetters == <<"a", "b", "c", "d", "e", "f", "g", "h", "i", "j", "k", "l", "m", "n", "o", "p", "q", "r", "s", "t", "u", "v", "w", "x", "y", "z">>
UpperLetters == <<"A", "B", "C", "D", "E", "F", "G", "H", "I", "J", "K", "L", "M", "N", "O", "P", "Q", "R", "S", "T", "U", "V", "W", "X", "Y", "Z">>
IsLower(c) == \E i \in DOMAIN LowerLetters : LowerLetters[i] = c
IsUpper(c) == \E i \in DOMAIN UpperLetters : UpperLetters[i] = c
IsCased(c) == IsLower(c) \/ IsUpper(c)
ToUpper(c) ==
    IF IsLower(c) THEN UpperLetters[CHOOSE i \in DOMAIN LowerLetters : LowerLetters[i] = c]
    ELSE c
ToLower(c) ==
    IF IsUpper(c) THEN LowerLetters[CHOOSE i \in DOMAIN UpperLetters : UpperLetters[i] = c]
    ELSE c

\* str.lower()
str_lower(cs) == [i \in 1 .. Len(cs) |-> ToLower(cs[i])]
\* a bug: only the first character is upper-cased (str.capitalize)
str_capitalize(cs) ==
    [i \in 1 .. Len(cs) |-> IF i = 1 THEN ToUpper(cs[i]) ELSE ToLower(cs[i])]

\* str.title(): a cased character is upper-cased when the character before
\* it is not cased, lower-cased otherwise
str_title(cs) ==
    [i \in 1 .. Len(cs) |->
        IF i > 1 /\ IsCased(cs[i - 1]) THEN ToLower(cs[i]) ELSE ToUpper(cs[i])]

\* the characters of the status strings the tables of the model hold
Chars(s) ==
    CASE s = "pending" -> <<"p", "e", "n", "d", "i", "n", "g">>
      [] s = "confirmed" -> <<"c", "o", "n", "f", "i", "r", "m", "e", "d">>
      [] s = "processing" -> <<"p", "r", "o", "c", "e", "s", "s", "i", "n", "g">>
      [] s = "shipped" -> <<"s", "h", "i", "p", "p", "e", "d">>
      [] s = "delivered" -> <<"d", "e", "l", "i", "v", "e", "r", "e", "d">>
      [] s = "cancelled" -> <<"c", "a", "n", "c", "e", "l", "l", "e", "d">>
      [] s = "refunded" -> <<"r", "e", "f", "u", "n", "d", "e", "d">>
      [] s = "archived" -> <<"a", "r", "c", "h", "i", "v", "e", "d">>
      [] s = "unknown_status" ->
            <<"u", "n", "k", "n", "o", "w", "n", "_", "s", "t", "a", "t", "u", "s">>
      [] OTHER -> <<>>

----------------------------------------------------------------------------
(* The order_logs schema and the parameters bound by the INSERT *)

\* The text of a str parameter reaching the INTEGER column admin_id: the
\* server reads it as an integer literal, and rejects anything else.
PgIntegerIn(cs) ==
    IF cs # <<>> /\ \A i \in 1 .. Len(cs) : cs[i] \in Digits
    THEN [ok |-> TRUE, val |-> SqlInt(DecimalVal(cs))]
    ELSE [ok |-> FALSE, val |-> SqlNull]

\* order_logs.admin_id INTEGER: the value stored for the Python argument
\* admin_id, or the failure of the INSERT.
AdminIdColumn(v) ==
    CASE v.tag = "none" -> [ok |-> TRUE, val |-> SqlNull]
      [] v.tag = "int" -> [ok |-> TRUE, val |-> SqlInt(v.n)]
      [] OTHER -> PgIntegerIn(v.chars)

\* the row the INSERT of update_order_status adds
LogRow(order_id, admin_val, notes, old, new) ==
    [order_id |-> order_id, admin_id |-> admin_val, action |-> "status_update",
     details |-> notes, old_status |-> old, new_status |-> new]

----------------------------------------------------------------------------
(* Transactions of a psycopg connection *)

NoWrites == [status |-> [o \in {} |-> ""], logs |-> <<>>]

\* a bug: the UPDATE without its WHERE clause
TxnOrdersNoWhere(p) ==
    [o \in DOMAIN orders |->
        IF DOMAIN txn[p].status # {}
        THEN [orders[o] EXCEPT !.status =
                 txn[p].status[CHOOSE x \in DOMAIN txn[p].status : TRUE]]
        ELSE orders[o]]

\* the orders table as the worker's own transaction sees it
TxnOrders(p) ==
    [o \in DOMAIN orders |->
        IF o \in DOMAIN txn[p].status
        THEN [orders[o] EXCEPT !.status = txn[p].status[o]]
        ELSE orders[o]]

\* a bug: the UPDATE writes the committed table directly (autocommit)
WriteStatusAutocommit(p, order_id, new) ==
    /\ orders' = [orders EXCEPT ![order_id].status = new]
    /\ txn' = txn

\* UPDATE orders SET status = new WHERE order_id = order_id, inside the
\* worker's open transaction
WriteStatus(p, order_id, new) ==
    /\ txn' = [txn EXCEPT ![p].status =
                  [o \in (DOMAIN @) \cup {order_id} |->
                      IF o = order_id THEN new ELSE @[o]]]
    /\ orders' = orders

\* conn.commit(): every write of the transaction becomes visible at once
CommitTxn(p) ==
    /\ orders' = TxnOrders(p)
    /\ order_logs' = order_logs \o txn[p].logs
    /\ txn' = [txn EXCEPT ![p] = NoWrites]

\* leaving "with conn" by an exception: the transaction is rolled back
RollbackTxn(p) ==
    /\ txn' = [txn EXCEPT ![p] = NoWrites]
    /\ UNCHANGED <<orders, order_logs>>

----------------------------------------------------------------------------
(* Time: timestamps are hours since the epoch; a month has DaysPerMonth days *)

HoursPerDay == 24
DaysPerWeek == 7
DaysPerMonth == 30
HoursPerMonth == HoursPerDay * DaysPerMonth
\* datetime.min
MinTimestamp == 0

\* now.replace(hour=0, minute=0, second=0, microsecond=0)
StartOfDay(t) == t - (t % HoursPerDay)
\* now.replace(day=1, hour=0, minute=0, second=0, microsecond=0)
StartOfMonth(t) == t - (t % HoursPerMonth)

----------------------------------------------------------------------------
(* Initial state *)

\* the contact columns of the orders of the model, by order id
UserNames == << <<"A", "n", "u">>, <<"B", "a", "n", "u">>, <<"C", "y">>, <<"D", "e", "v">> >>
UserPhones == << <<"9", "8", "1">>, <<"9", "8", "2">>, <<"9", "7", "3">>, <<"9", "7", "4">> >>
Amounts == <<450, 380, 120, 90>>

OrderRow(order_id, status, order_date, user_id) ==
    [status |-> status, order_date |-> order_date,
     total_amount |-> Amounts[order_id], user_id |-> user_id,
     user_name |-> UserNames[order_id], user_phone |-> UserPhones[order_id],
     user_email |-> str_lower(UserNames[order_id]) \o <<"@", "x">>]

\* the order_items rows of the model
AllItems ==
    << [order_item_id |-> 1, order_id |-> 1, item_name |-> <<"P", "i", "z", "z", "a">>,
        item_type |-> "menu", quantity |-> 2, total |-> 450],
       [order_item_id |-> 2, order_id |-> 2,
        item_name |-> <<"C", "a", "r", " ", "W", "a", "s", "h">>,
        item_type |-> "service", quantity |-> 1, total |-> 380],
       [order_item_id |-> 3, order_id |-> 3, item_name |-> <<"P", "i", "z", "z", "a">>,
        item_type |-> "menu", quantity |-> 3, total |-> 120] >>
ItemsOf(ids) == SelectSeq(AllItems, LAMBDA r : r.order_id \in ids)

\* models.py init_admin_tables: the tables it creates and the keys of the
\* default settings it inserts, in the order of the list
AdminTables == {"admin_settings", "order_logs", "payment_logs", "admin_notifications"}
DefaultSettingKeys ==
    <<"site_name", "currency_symbol", "timezone", "items_per_page",
      "default_order_status", "enable_email_notifications",
      "enable_sms_notifications", "order_notification_email">>

\* the state init_admin_tables leaves on a database without admin tables:
\* tables: the admin tables that exist; settings: column setting_key of the
\* rows of admin_settings, in insertion order
InitializedAdminDb == [tables |-> AdminTables, settings |-> DefaultSettingKeys]

NoRet == [ok |-> FALSE, msg |-> "(no call)"]
NoCall == [order_id |-> 0, new_status |-> "", admin_id |-> PyNone,
           notes |-> "", via |-> "none"]
\* the connections a request used: how many it opened, and the most it held
\* open at one time
ConnUse(opened, peak) == [opened |-> opened, peak |-> peak]
NoConn == ConnUse(0, 0)
OneConn == ConnUse(1, 1)
NoResp == [route |-> "", kind |-> "none", success |-> FALSE, message |-> "",
           body |-> <<>>, authed |-> FALSE, arg |-> <<>>, conn |-> NoConn]
NoSession == [keys |-> {}, admin_username |-> <<>>, login_time |-> 0]
NoQuery == [fn |-> "none"]
NoSnapshot == [orders |-> <<>>, order_logs |-> <<>>]
Snapshot == [orders |-> orders, order_logs |-> order_logs]

\* the clock of the sequential specification: day 2 of month 2, 10 o'clock
SpecNow == HoursPerMonth + HoursPerDay + 10

InitWorkers ==
    /\ pc = [p \in Workers |-> "idle"]
    /\ call = [p \in Workers |-> NoCall]
    /\ old_status = [p \in Workers |-> ""]
    /\ txn = [p \in Workers |-> NoWrites]
    /\ conns = [p \in Workers |-> 0]
    /\ db_ops = [p \in Workers |-> 0]
    /\ ret = [p \in Workers |-> NoRet]
    /\ resp = [p \in Workers |-> NoResp]
    /\ pre = [p \in Workers |-> NoSnapshot]
    /\ fault = [p \in Workers |-> "none"]

\* the orders table at the start: one order of yesterday, one of today
InitialOrders ==
    (1 :> OrderRow(1, "pending", SpecNow - HoursPerDay, 1))
    @@ (2 :> OrderRow(2, "delivered", SpecNow - 1, 0))

Init ==
    /\ now = SpecNow
    /\ orders = InitialOrders
    /\ order_logs = <<>>
    /\ payments = (1 :> "completed")
    /\ order_items = ItemsOf(OrderIds)
    /\ users = {1}
    /\ session = NoSession
    /\ query = NoQuery
    /\ admin_db = InitializedAdminDb
    /\ InitWorkers

----------------------------------------------------------------------------
(* models.py: update_order_status, one action per statement *)

\* the arguments a direct caller of the repository passes
CallStatuses == {"pending", "archived"}
CallAdminIds == {PyNone, PyInt(7), PyStr(ADMIN_USERNAME)}
CallNotes == {"confirmed by phone"}

Failure(msg) == [ok |-> FALSE, msg |-> msg]
Success(msg) == [ok |-> TRUE, msg |-> msg]

\* entering update_order_status(order_id, new_status, admin_id, notes)
BeginUpdate(p, order_id, new_status, admin_id, notes, via) ==
    /\ call' = [call EXCEPT ![p] =
                  [order_id |-> order_id, new_status |-> new_status,
                   admin_id |-> admin_id, notes |-> notes, via |-> via]]
    /\ pc' = [pc EXCEPT ![p] = "connect"]
    /\ pre' = [pre EXCEPT ![p] = Snapshot]
    /\ fault' = [fault EXCEPT ![p] = "none"]
    /\ ret' = [ret EXCEPT ![p] = NoRet]
    /\ old_status' = [old_status EXCEPT ![p] = ""]

\* a unit-level caller (the testable properties call the function itself)
CallUpdateOrderStatus(p, order_id, new_status, admin_id, notes) ==
    /\ pc[p] = "idle"
    /\ Len(order_logs) < MaxLogs
    /\ BeginUpdate(p, order_id, new_status, admin_id, notes, "direct")
    /\ db_ops' = [db_ops EXCEPT ![p] = 0]
    /\ resp' = [resp EXCEPT ![p] = NoResp]
    /\ UNCHANGED <<db_vars, now, session, txn, conns, query>>

\* with get_db_connection() as conn
Connect(p) ==
    /\ pc[p] = "connect"
    /\ conns' = [conns EXCEPT ![p] = @ + 1]
    /\ pc' = [pc EXCEPT ![p] = "select"]
    /\ UNCHANGED <<db_vars, now, session, call, old_status, txn, db_ops, ret,
                   resp, pre, fault, query>>

\* get_db_connection() raises: the except clause returns False, str(e)
ConnectFault(p) ==
    /\ pc[p] = "connect"
    /\ ret' = [ret EXCEPT ![p] = Failure("connection failed")]
    /\ fault' = [fault EXCEPT ![p] = "connect"]
    /\ pc' = [pc EXCEPT ![p] = "return"]
    /\ UNCHANGED <<db_vars, now, session, call, old_status, txn, conns, db_ops,
                   resp, pre, query>>

\* a bug: a missing order is reported as a success
NotFoundResultSuccess == Success("Order not found")

\* if not current_order: return False, "Order not found"
NotFoundResult == Failure("Order not found")

\* SELECT status FROM orders WHERE order_id = %s; fetchone(); the test
SelectStatus(p) ==
    /\ pc[p] = "select"
    /\ db_ops' = [db_ops EXCEPT ![p] = @ + 1]
    /\ IF call[p].order_id \notin DOMAIN orders
       THEN /\ ret' = [ret EXCEPT ![p] = NotFoundResult]
            /\ pc' = [pc EXCEPT ![p] = "return"]
            \* leaving "with conn" normally: commit (nothing written), close
            /\ CommitTxn(p)
            /\ conns' = [conns EXCEPT ![p] = @ - 1]
            /\ UNCHANGED old_status
       ELSE /\ old_status' = [old_status EXCEPT ![p] =
                                 TxnOrders(p)[call[p].order_id].status]
            /\ pc' = [pc EXCEPT ![p] = "update"]
            /\ UNCHANGED <<orders, order_logs, txn, conns, ret>>
    /\ UNCHANGED <<static_vars, session, call, resp, pre, fault, query>>

\* the row of the order is locked against p: another connection has
\* updated it and has not yet committed or rolled back; the UPDATE of p
\* waits until then
RowLocked(p, order_id) ==
    \E q \in Workers \ {p} : order_id \in DOMAIN txn[q].status

\* UPDATE orders SET status = %s WHERE order_id = %s
UpdateStatus(p) ==
    /\ pc[p] = "update"
    /\ ~RowLocked(p, call[p].order_id)
    /\ WriteStatus(p, call[p].order_id, call[p].new_status)
    /\ db_ops' = [db_ops EXCEPT ![p] = @ + 1]
    /\ pc' = [pc EXCEPT ![p] = "insert"]
    /\ UNCHANGED <<order_logs, static_vars, session, call, old_status, conns,
                   ret, resp, pre, fault, query>>

\* a bug: the log row records the new status as the old one
LoggedOldStatusNew(p) == call[p].new_status

\* the old_status the INSERT binds
LoggedOldStatus(p) == old_status[p]

\* INSERT INTO order_logs (...) VALUES (...)
InsertLog(p) ==
    /\ pc[p] = "insert"
    /\ db_ops' = [db_ops EXCEPT ![p] = @ + 1]
    /\ LET a == AdminIdColumn(call[p].admin_id) IN
       IF a.ok
       THEN /\ txn' = [txn EXCEPT ![p].logs =
                          Append(@, LogRow(call[p].order_id, a.val, call[p].notes,
                                           LoggedOldStatus(p), call[p].new_status))]
            /\ pc' = [pc EXCEPT ![p] = "commit"]
            /\ UNCHANGED <<orders, order_logs, conns, ret>>
       ELSE \* the server rejects the parameter: rollback, close, except clause
            /\ RollbackTxn(p)
            /\ conns' = [conns EXCEPT ![p] = @ - 1]
            /\ ret' = [ret EXCEPT ![p] =
                          Failure("invalid input syntax for type integer")]
            /\ pc' = [pc EXCEPT ![p] = "return"]
    /\ UNCHANGED <<static_vars, session, call, old_status, resp, pre, fault, query>>

\* a bug: the except clause reports the failure as a success
FaultResultSuccess == Success("Status updated successfully")

\* except Exception as e: return False, str(e)
FaultResult == Failure("database error")

\* conn.commit(); return True, "Status updated successfully"
Commit(p) ==
    /\ pc[p] = "commit"
    /\ CommitTxn(p)
    /\ conns' = [conns EXCEPT ![p] = @ - 1]
    /\ ret' = [ret EXCEPT ![p] = Success("Status updated successfully")]
    /\ pc' = [pc EXCEPT ![p] = "return"]
    /\ UNCHANGED <<static_vars, session, call, old_status, db_ops, resp, pre,
                   fault, query>>

\* a statement (the SELECT, the UPDATE, the INSERT or the COMMIT) raises:
\* "with conn" rolls back and closes, the except clause returns the failure
StatementFault(p) ==
    /\ pc[p] \in {"select", "update", "insert", "commit"}
    /\ RollbackTxn(p)
    /\ conns' = [conns EXCEPT ![p] = @ - 1]
    /\ ret' = [ret EXCEPT ![p] = FaultResult]
    /\ fault' = [fault EXCEPT ![p] = pc[p]]
    /\ pc' = [pc EXCEPT ![p] = "return"]
    /\ UNCHANGED <<static_vars, session, call, old_status, db_ops, resp, pre, query>>

\* conn.commit() raises after the server has committed (the reply is lost)
CommitReplyLost(p) ==
    /\ pc[p] = "commit"
    /\ CommitTxn(p)
    /\ conns' = [conns EXCEPT ![p] = @ - 1]
    /\ ret' = [ret EXCEPT ![p] = FaultResult]
    /\ fault' = [fault EXCEPT ![p] = "commit_reply"]
    /\ pc' = [pc EXCEPT ![p] = "return"]
    /\ UNCHANGED <<static_vars, session, call, old_status, db_ops, resp, pre, query>>

----------------------------------------------------------------------------
(* models.py: get_order_details *)

RECURSIVE Reverse(_)
Reverse(s) == IF s = <<>> THEN <<>> ELSE Append(Reverse(Tail(s)), Head(s))

PyNoneResult == [isnone |-> TRUE, d |-> <<>>]
PyDict(d) == [isnone |-> FALSE, d |-> d]

\* the order row of the first query: o.* with the payment columns joined in
OrderWithPayment(order_id) ==
    [row |-> orders[order_id],
     payment_status |-> IF order_id \in DOMAIN payments
                        THEN payments[order_id] ELSE "NULL"]

\* a bug: a missing order yields a dict with empty parts
NotFoundDetailsPartial ==
    PyDict([order |-> <<>>, items |-> <<>>, customer |-> 0, logs |-> <<>>])

\* if not order: return None
NotFoundDetails == PyNoneResult

\* get_order_details(order_id); raises: a statement of it raises
get_order_details(order_id, raises) ==
    IF raises THEN PyNoneResult
    ELSE IF order_id \notin DOMAIN orders THEN NotFoundDetails
    ELSE PyDict(
        [order |-> OrderWithPayment(order_id),
         items |-> SelectSeq(order_items, LAMBDA r : r.order_id = order_id),
         customer |-> IF orders[order_id].user_id \in users
                      THEN orders[order_id].user_id ELSE 0,
         logs |-> Reverse(SelectSeq(order_logs, LAMBDA r : r.order_id = order_id))])

----------------------------------------------------------------------------
(* app.py: the session and the login gate *)

ProtectedRoutes == {"dashboard", "orders", "order_details", "order_payment",
                    "order_customer", "update_status", "customers",
                    "statistics", "items", "api_statistics"}

\* a bug: the decorator lets every request through
admin_login_required_open(sess) == TRUE

\* admin_login_required: the wrapped handler runs iff the session holds
\* admin_logged_in
admin_login_required(sess) == "admin_logged_in" \in sess.keys

Redirect(route, authed) ==
    [route |-> route, kind |-> "redirect_login", success |-> FALSE,
     message |-> "Please login as admin to access this page",
     body |-> <<>>, authed |-> authed, arg |-> <<>>, conn |-> NoConn]

Json(route, success, message, body) ==
    [route |-> route, kind |-> "json", success |-> success,
     message |-> message, body |-> body, authed |-> TRUE, arg |-> <<>>,
     conn |-> NoConn]

Html(route, message, body) ==
    [route |-> route, kind |-> "html", success |-> TRUE,
     message |-> message, body |-> body, authed |-> TRUE, arg |-> <<>>,
     conn |-> NoConn]

LoggedIn == "admin_logged_in" \in session.keys

\* a request answered without entering update_order_status; ops: the number
\* of statements the handler executed
Answer(p, r, ops) ==
    /\ resp' = [resp EXCEPT ![p] = r]
    /\ db_ops' = [db_ops EXCEPT ![p] = ops]
    /\ query' = NoQuery
    /\ UNCHANGED <<db_vars, now, pc, call, old_status, txn, conns, ret, pre, fault>>

Whitespace == {" ", "\t", "\n"}

\* a bug: the text is taken as it is
str_unstripped(cs) == cs

RECURSIVE str_strip(_)
\* str.strip()
str_strip(cs) ==
    IF cs = <<>> THEN <<>>
    ELSE IF Head(cs) \in Whitespace THEN str_strip(Tail(cs))
    ELSE IF cs[Len(cs)] \in Whitespace THEN str_strip(SubSeq(cs, 1, Len(cs) - 1))
    ELSE cs

\* the username and password fields of the posted form: the configured
\* text, bare and with spaces around it, nothing, blanks, another text
LoginUsernames == {ADMIN_USERNAME, <<" ">> \o ADMIN_USERNAME \o <<" ">>, <<>>,
                   <<"b", "o", "b">>}
LoginPasswords == {ADMIN_PASSWORD, ADMIN_PASSWORD \o <<" ">>, <<" ", " ">>,
                   <<"l", "e", "t", "m", "e", "i", "n">>}

\* a bug: the password is not compared
CredentialsMatchUsernameOnly(username, password) ==
    username # <<>> /\ password # <<>> /\ username = ADMIN_USERNAME

\* if not username or not password: ...; username == correct_username and
\* password == correct_password
CredentialsMatch(username, password) ==
    /\ username # <<>> /\ password # <<>>
    /\ username = ADMIN_USERNAME /\ password = ADMIN_PASSWORD

\* POST /admin/login with the form fields username and password; the
\* response keeps the fields as they were posted
admin_login(p, username, password) ==
    /\ pc[p] = "idle"
    /\ IF CredentialsMatch(str_strip(username), str_strip(password))
       THEN /\ session' = [keys |-> {"admin_logged_in", "admin_username", "login_time"},
                           admin_username |-> str_strip(username), login_time |-> now]
            /\ Answer(p, [NoResp EXCEPT !.route = "login",
                                        !.kind = "redirect_dashboard",
                                        !.success = TRUE,
                                        !.authed = LoggedIn,
                                        !.arg = [username |-> username,
                                                 password |-> password]], 0)
       ELSE /\ session' = session
            /\ Answer(p, [NoResp EXCEPT !.route = "login", !.kind = "html",
                                        !.authed = LoggedIn,
                                        !.arg = [username |-> username,
                                                 password |-> password]], 0)

\* GET /admin/logout
admin_logout(p) ==
    /\ pc[p] = "idle"
    /\ session' = NoSession
    /\ Answer(p, [NoResp EXCEPT !.route = "logout", !.kind = "redirect_login",
                                !.success = TRUE, !.authed = LoggedIn], 0)

----------------------------------------------------------------------------
(* app.py: the order routes *)

\* the status field of the posted form: missing, empty, blank, a status
\* (with spaces around it), a word that is no status
FormStatuses == {PyNone, PyStr(<<>>), PyStr(<<" ", " ">>),
                 PyStr(<<" ">> \o Chars("processing") \o <<" ">>),
                 PyStr(Chars("archived"))}

\* request.form.get(key, ''): the text of the field, '' when it is missing
FormGet(field) == IF field.tag = "str" THEN field.chars ELSE <<>>

\* the status string the model's tables hold for a text
StatusText(cs) ==
    IF \E st \in Statuses \cup {"archived"} : Chars(st) = cs
    THEN CHOOSE st \in Statuses \cup {"archived"} : Chars(st) = cs
    ELSE IF cs = <<>> THEN "" ELSE "(other)"
FormNotes == {"confirmed by phone"}

\* session.get('admin_username')
SessionAdminUsername ==
    IF "admin_username" \in session.keys THEN PyStr(session.admin_username)
    ELSE PyNone

\* POST /admin/order/<order_id>/update-status
admin_update_order_status(p, order_id, form_status, form_notes) ==
    /\ pc[p] = "idle"
    /\ session' = session
    /\ IF ~admin_login_required(session)
       THEN Answer(p, Redirect("update_status", LoggedIn), 0)
       ELSE IF str_strip(FormGet(form_status)) = <<>>
       THEN Answer(p, [Json("update_status", FALSE, "Status is required", <<>>)
                          EXCEPT !.arg = [order_id |-> order_id, status |-> form_status]],
                   0)
       ELSE /\ Len(order_logs) < MaxLogs
            /\ BeginUpdate(p, order_id, StatusText(str_strip(FormGet(form_status))),
                           SessionAdminUsername, form_notes, "route")
            /\ resp' = [resp EXCEPT ![p] =
                           [NoResp EXCEPT !.route = "update_status",
                                          !.kind = "pending",
                                          !.authed = LoggedIn,
                                          !.arg = [order_id |-> order_id,
                                                   status |-> form_status]]]
            /\ db_ops' = [db_ops EXCEPT ![p] = 0]
            /\ UNCHANGED <<db_vars, now, txn, conns, query>>

\* update_order_status returns; the route turns (success, message) into JSON
Return(p) ==
    /\ pc[p] = "return"
    /\ pc' = [pc EXCEPT ![p] = "idle"]
    /\ resp' = IF call[p].via = "route"
               THEN [resp EXCEPT ![p] =
                        [Json("update_status", ret[p].ok, ret[p].msg, <<>>)
                            EXCEPT !.arg = resp[p].arg,
                                   !.conn = IF fault[p] = "connect" THEN NoConn
                                            ELSE OneConn]]
               ELSE resp
    \* the frame of the call is gone
    /\ call' = [call EXCEPT ![p] = NoCall]
    /\ old_status' = [old_status EXCEPT ![p] = ""]
    /\ ret' = [ret EXCEPT ![p] = NoRet]
    /\ pre' = [pre EXCEPT ![p] = NoSnapshot]
    /\ fault' = [fault EXCEPT ![p] = "none"]
    /\ UNCHANGED <<db_vars, now, session, txn, conns, db_ops, query>>

\* the keys of order_data the route reads to build its JSON
OrderDetailKeys == {"order", "items", "customer", "payment", "logs"}

\* the JSON of admin_order_details for the value get_order_details returned
OrderDetailsJson(order_data) ==
    IF order_data.isnone
    THEN Json("order_details", FALSE, "Order not found", <<>>)
    ELSE IF \E k \in OrderDetailKeys : k \notin DOMAIN order_data.d
    THEN \* order_data[k] raises KeyError, caught by the route's except clause
         Json("order_details", FALSE, "'payment'", <<>>)
    ELSE Json("order_details", TRUE, "",
              [k \in OrderDetailKeys |-> order_data.d[k]])

\* the statements get_order_details executes
OrderDetailsOps(order_id, raises) ==
    IF raises THEN 1
    ELSE IF order_id \notin DOMAIN orders THEN 1
    ELSE IF orders[order_id].user_id # 0 THEN 4 ELSE 3

\* GET /admin/order/<order_id>
admin_order_details(p, order_id, raises) ==
    /\ pc[p] = "idle"
    /\ session' = session
    /\ IF ~admin_login_required(session)
       THEN Answer(p, Redirect("order_details", LoggedIn), 0)
       ELSE Answer(p, [OrderDetailsJson(get_order_details(order_id, raises))
                          EXCEPT !.arg = [order_id |-> order_id, raises |-> raises],
                                 !.conn = OneConn],
                   OrderDetailsOps(order_id, raises))

\* get_customer_details(user_id): None for a missing user
get_customer_details(user_id) ==
    IF user_id \in users THEN PyDict([user |-> user_id]) ELSE PyNoneResult

\* GET /admin/order/<order_id>/customer: the handler looks the order up on a
\* connection of its own and calls get_customer_details, which opens its
\* own, inside that with block
admin_order_customer(p, order_id) ==
    /\ pc[p] = "idle"
    /\ session' = session
    /\ IF ~admin_login_required(session)
       THEN Answer(p, Redirect("order_customer", LoggedIn), 0)
       ELSE IF order_id \notin DOMAIN orders \/ orders[order_id].user_id = 0
       THEN Answer(p, [Json("order_customer", FALSE, "Customer not found", <<>>)
                          EXCEPT !.arg = [order_id |-> order_id], !.conn = OneConn], 1)
       ELSE IF get_customer_details(orders[order_id].user_id).isnone
       THEN Answer(p, [Json("order_customer", FALSE, "Customer details not found", <<>>)
                          EXCEPT !.arg = [order_id |-> order_id],
                                 !.conn = ConnUse(2, 2)], 2)
       ELSE Answer(p, [Json("order_customer", TRUE, "",
                            get_customer_details(orders[order_id].user_id).d)
                          EXCEPT !.arg = [order_id |-> order_id],
                                 !.conn = ConnUse(2, 2)], 5)

\* the other gated routes that only read
ReadRoutes == {"dashboard", "orders", "order_payment", "customers", "items"}

\* the connections a read route opens: the dashboard calls get_todays_orders
\* and get_order_statistics, each on its own connection, and then opens a
\* third; every other page opens one
ReadRouteConns(route) ==
    IF route = "dashboard" THEN ConnUse(3, 1) ELSE OneConn

admin_read_route(p, route) ==
    /\ pc[p] = "idle"
    /\ session' = session
    /\ IF ~admin_login_required(session)
       THEN Answer(p, Redirect(route, LoggedIn), 0)
       ELSE Answer(p, [Html(route, "", <<>>) EXCEPT !.conn = ReadRouteConns(route)],
                   ReadRouteConns(route).opened)

----------------------------------------------------------------------------
(* models.py: get_order_statistics *)

\* the names bound at module level in models.py (its import statements)
ModelsNames == {"os", "sys", "datetime", "traceback", "cloudinary",
                "DATABASE_URL", "CLOUDINARY_CLOUD_NAME", "CLOUDINARY_API_KEY",
                "CLOUDINARY_API_SECRET", "ist_now", "to_ist",
                "format_ist_datetime", "psycopg", "dict_row"}

\* the global names the branch of a period keyword evaluates
BranchNames(time_period) ==
    CASE time_period = "today" -> {"ist_now"}
      [] time_period = "week" -> {"ist_now", "timedelta"}
      [] time_period = "month" -> {"ist_now"}
      [] OTHER -> {"ist_now", "datetime", "UTC_TIMEZONE", "IST_TIMEZONE"}

\* start_date, end_date and group_by of a period keyword at time t; raised:
\* the branch raises NameError
StatsWindow(time_period, t) ==
    IF ~(BranchNames(time_period) \subseteq ModelsNames)
    THEN [raised |-> TRUE, start |-> 0, end |-> 0, group_by |-> ""]
    ELSE CASE time_period = "today" ->
                [raised |-> FALSE, start |-> StartOfDay(t), end |-> t,
                 group_by |-> "hour"]
           [] time_period = "week" ->
                [raised |-> FALSE, start |-> t - DaysPerWeek * HoursPerDay,
                 end |-> t, group_by |-> "day"]
           [] time_period = "month" ->
                [raised |-> FALSE, start |-> StartOfMonth(t), end |-> t,
                 group_by |-> "day"]
           [] OTHER ->
                [raised |-> FALSE, start |-> MinTimestamp, end |-> t,
                 group_by |-> "month"]

\* WHERE order_date BETWEEN start AND end
OrdersBetween(start, end) ==
    {o \in DOMAIN orders : start <= orders[o].order_date /\ orders[o].order_date <= end}

\* DATE_TRUNC('hour', d), DATE(d), DATE_TRUNC('month', d)
Bucket(group_by, d) ==
    CASE group_by = "hour" -> d
      [] group_by = "day" -> d - (d % HoursPerDay)
      [] OTHER -> d - (d % HoursPerMonth)

RECURSIVE SumAmount(_)
SumAmount(S) ==
    IF S = {} THEN 0
    ELSE LET o == CHOOSE x \in S : TRUE
         IN orders[o].total_amount + SumAmount(S \ {o})

\* SUM(total_amount): NULL over no rows
SqlSumAmount(S) == IF S = {} THEN SqlNull ELSE SqlInt(SumAmount(S))
\* AVG(total_amount): NULL over no rows (the quotient is cut to an integer)
SqlAvgAmount(S) ==
    IF S = {} THEN SqlNull ELSE SqlInt(SumAmount(S) \div Cardinality(S))

RECURSIVE AscendingSeq(_)
AscendingSeq(S) ==
    IF S = {} THEN <<>>
    ELSE LET m == CHOOSE x \in S : \A y \in S : x <= y
         IN <<m>> \o AscendingSeq(S \ {m})

\* query 1: GROUP BY period ORDER BY period
OrdersTimeline(W, group_by) ==
    LET periods == AscendingSeq({Bucket(group_by, orders[o].order_date) : o \in W})
        In(b) == {o \in W : Bucket(group_by, orders[o].order_date) = b}
    IN [i \in 1 .. Len(periods) |->
           [period |-> periods[i],
            period_type |-> IF group_by = "day" THEN "date" ELSE "datetime",
            order_count |-> Cardinality(In(periods[i])),
            total_revenue |-> SqlSumAmount(In(periods[i]))]]

ItemRows(W) == {i \in DOMAIN order_items : order_items[i].order_id \in W}

RECURSIVE SumItems(_, _)
SumItems(I, field) ==
    IF I = {} THEN 0
    ELSE LET i == CHOOSE x \in I : TRUE
         IN order_items[i][field] + SumItems(I \ {i}, field)

\* query 2 before its ORDER BY: GROUP BY oi.item_name, oi.item_type
TopItemGroups(W) ==
    LET keys == {<<order_items[i].item_name, order_items[i].item_type>> : i \in ItemRows(W)}
        In(k) == {i \in ItemRows(W) : <<order_items[i].item_name, order_items[i].item_type>> = k}
    IN {[item_name |-> PyStr(k[1]), item_type |-> k[2],
         total_quantity |-> SumItems(In(k), "quantity"),
         total_revenue |-> SqlInt(SumItems(In(k), "total"))] : k \in keys}

Perms(S) ==
    {f \in [1 .. Cardinality(S) -> S] : \A i, j \in 1 .. Cardinality(S) : f[i] = f[j] => i = j}

TopItemsLimit == 10

Min(a, b) == IF a <= b THEN a ELSE b

\* the results query 2 may return: ORDER BY total_quantity DESC LIMIT 10
TopItemResults(W) ==
    {SubSeq(s, 1, Min(TopItemsLimit, Len(s))) :
        s \in {f \in Perms(TopItemGroups(W)) :
                  \A i \in 1 .. Len(f) - 1 : f[i].total_quantity >= f[i + 1].total_quantity}}

\* the results query 3 may return: GROUP BY status, in any row order
StatusResults(W) ==
    Perms({[status |-> PyStr(Chars(st)), count |-> Cardinality({o \in W : orders[o].status = st})] :
              st \in {orders[o].status : o \in W}})

TotalsKeys == {"total_orders", "total_revenue", "avg_order_value"}

\* query 4: COUNT(*), SUM(total_amount), AVG(total_amount)
Totals(W) ==
    [keys |-> TotalsKeys, total_orders |-> Cardinality(W),
     total_revenue |-> SqlSumAmount(W), avg_order_value |-> SqlAvgAmount(W)]

NoTotals == [keys |-> {}]
\* the empty dict get_order_statistics returns from its except clause
EmptyStats == [keys |-> {}, orders_timeline |-> <<>>, top_items |-> <<>>,
               status_distribution |-> <<>>, totals |-> NoTotals]
StatsKeys == {"orders_timeline", "top_items", "status_distribution", "totals"}

\* the values get_order_statistics(time_period) may return; raises: a
\* statement of it raises
get_order_statistics(time_period, raises) ==
    LET w == StatsWindow(time_period, now)
        W == OrdersBetween(w.start, w.end)
    IN IF raises \/ w.raised
       THEN {EmptyStats}
       ELSE {[keys |-> StatsKeys,
              orders_timeline |-> OrdersTimeline(W, w.group_by),
              top_items |-> top, status_distribution |-> dist,
              totals |-> Totals(W)] :
                top \in TopItemResults(W), dist \in StatusResults(W)}

----------------------------------------------------------------------------
(* utils.py: format_currency and prepare_chart_data *)


ChartPointsLimit == 20
ChartItemsLimit == 10
ItemLabelChars == 20

\* a bug: the slice keeps the whole list
TakeAll(s, n) == s

\* s[:n]
Take(s, n) == SubSeq(s, 1, Min(n, Len(s)))

\* Python values handed to prepare_chart_data: a list of rows, None or a
\* number; a row is a dict (a record of the keys it holds) or None
PyList(rows) == [tag |-> "list", items |-> rows]
IsDict(row) == "tag" \notin DOMAIN row
\* item.get(key, default)
DictGet(row, key, default) == IF key \in DOMAIN row THEN row[key] ELSE default
IsSqlNumber(v) == "isnull" \in DOMAIN v

\* float(x or 0) raises: x is a non-empty text that is not a number (the
\* texts of the model are digit strings and words)
FloatRaises(v) ==
    /\ ~IsSqlNumber(v)
    /\ v.tag = "str" /\ v.chars # <<>> /\ ~PgIntegerIn(v.chars).ok

\* float(x or 0)
FloatOrZero(v) ==
    IF IsSqlNumber(v) THEN (IF v.isnull THEN 0 ELSE v.n)
    ELSE IF v.tag = "int" THEN v.n
    ELSE IF v.tag = "str" /\ v.chars # <<>> THEN DecimalVal(v.chars)
    ELSE 0

\* format_currency: the literal "₹0.00" of the None branch and of the
\* except clause
CurrencySymbol == "₹"
ZeroAmountText == <<CurrencySymbol, "0", ".", "0", "0">>

\* float(amount) raises: amount is no number and no text float() reads
\* (the texts of the model are digit strings, the empty text and words)
CurrencyFloatRaises(amount) ==
    /\ ~IsSqlNumber(amount)
    /\ \/ amount.tag \notin {"int", "str"}
       \/ amount.tag = "str" /\ ~PgIntegerIn(amount.chars).ok

\* float(amount), for an amount it reads
CurrencyFloat(amount) ==
    IF IsSqlNumber(amount) THEN amount.n
    ELSE IF amount.tag = "int" THEN amount.n
    ELSE DecimalVal(amount.chars)

RECURSIVE GroupThousands(_)
\* the "," of the format: a comma before every group of three digits
GroupThousands(cs) ==
    IF Len(cs) <= 3 THEN cs
    ELSE GroupThousands(SubSeq(cs, 1, Len(cs) - 3)) \o <<",">>
         \o SubSeq(cs, Len(cs) - 2, Len(cs))

\* f"{x:,.2f}" for a whole number x
FixedTwoDecimals(x) ==
    (IF x < 0 THEN <<"-">> ELSE <<>>)
    \o GroupThousands(IntText(IF x < 0 THEN 0 - x ELSE x)) \o <<".", "0", "0">>

\* a bug: no except clause around float(amount)
format_currency_raising(amount) ==
    IF ~IsSqlNumber(amount) /\ amount.tag = "none" THEN ZeroAmountText
    ELSE IF IsSqlNumber(amount) /\ amount.isnull THEN ZeroAmountText
    ELSE IF CurrencyFloatRaises(amount) THEN <<"r", "a", "i", "s", "e", "s">>
    ELSE <<CurrencySymbol>> \o FixedTwoDecimals(CurrencyFloat(amount))

\* format_currency(amount), the text as a sequence of characters; amount is
\* a Python value or a numeric column (NULL reaches Python as None)
format_currency(amount) ==
    IF ~IsSqlNumber(amount) /\ amount.tag = "none" THEN ZeroAmountText
    ELSE IF IsSqlNumber(amount) /\ amount.isnull THEN ZeroAmountText
    ELSE IF CurrencyFloatRaises(amount) THEN ZeroAmountText
    ELSE <<CurrencySymbol>> \o FixedTwoDecimals(CurrencyFloat(amount))

\* the label of a timeline bucket: strftime for a datetime, str otherwise
\* (str(None) for a row without period)
TimelineLabel(row) ==
    IF "period" \notin DOMAIN row THEN [text |-> "None", period |-> 0]
    ELSE [text |-> IF row.period_type = "datetime" THEN "strftime" ELSE "str",
          period |-> row.period]

\* name[:20] + ('...' if len(name) > 20 else '')
ItemLabel(name) ==
    Take(name, ItemLabelChars)
        \o (IF Len(name) > ItemLabelChars THEN <<".", ".", ".">> ELSE <<>>)

FallbackColor == "#6c757d"

\* status_colors.get(key, '#6c757d')
StatusColor(cs) ==
    CASE cs = <<"p", "e", "n", "d", "i", "n", "g">> -> "#ffc107"
      [] cs = <<"c", "o", "n", "f", "i", "r", "m", "e", "d">> -> "#17a2b8"
      [] cs = <<"p", "r", "o", "c", "e", "s", "s", "i", "n", "g">> -> "#007bff"
      [] cs = <<"s", "h", "i", "p", "p", "e", "d">> -> "#6f42c1"
      [] cs = <<"d", "e", "l", "i", "v", "e", "r", "e", "d">> -> "#28a745"
      [] cs = <<"c", "a", "n", "c", "e", "l", "l", "e", "d">> -> "#dc3545"
      [] OTHER -> FallbackColor

\* the defaults of item.get('item_name', 'Unknown') and item.get('status', 'unknown')
UnknownItemName == PyStr(<<"U", "n", "k", "n", "o", "w", "n">>)
UnknownStatus == PyStr(<<"u", "n", "k", "n", "o", "w", "n">>)

\* the body of a loop raises for a row: the row is not a dict (.get), the
\* revenue is not a number (float), the name is None (name[:20]), the status
\* is None (status.title())
TimelineRowRaises(row) ==
    ~IsDict(row) \/ FloatRaises(DictGet(row, "total_revenue", PyInt(0)))
ItemRowRaises(row) ==
    \/ ~IsDict(row)
    \/ DictGet(row, "item_name", UnknownItemName).tag # "str"
    \/ FloatRaises(DictGet(row, "total_revenue", PyInt(0)))
StatusRowRaises(row) ==
    ~IsDict(row) \/ DictGet(row, "status", UnknownStatus).tag # "str"

\* iterating the argument raises: it is no list
NotIterable(data) == data.tag # "list"

\* a loop raises: its argument is not iterable, or its body raises for a row
TimelineLoopRaises(data) ==
    NotIterable(data) \/ \E i \in DOMAIN data.items : TimelineRowRaises(data.items[i])
ItemsLoopRaises(data) ==
    NotIterable(data) \/ \E i \in DOMAIN data.items : ItemRowRaises(data.items[i])
StatusLoopRaises(data) ==
    NotIterable(data) \/ \E i \in DOMAIN data.items : StatusRowRaises(data.items[i])

\* an exception is raised inside the try block
ChartShapingFails(orders_data, top_items, status_data) ==
    \/ TimelineLoopRaises(orders_data)
    \/ ItemsLoopRaises(top_items)
    \/ StatusLoopRaises(status_data)

\* a bug: the except clause keeps a placeholder point in the timeline
PartlyEmptyCharts ==
    [timeline |-> [labels |-> <<"error">>, orders |-> <<0>>, revenue |-> <<0>>],
     items |-> [labels |-> <<>>, quantities |-> <<>>, revenues |-> <<>>],
     status |-> [labels |-> <<>>, values |-> <<>>, colors |-> <<>>]]

\* the dict the except clause returns
EmptyCharts ==
    [timeline |-> [labels |-> <<>>, orders |-> <<>>, revenue |-> <<>>],
     items |-> [labels |-> <<>>, quantities |-> <<>>, revenues |-> <<>>],
     status |-> [labels |-> <<>>, values |-> <<>>, colors |-> <<>>]]

\* a bug: a row without revenue adds nothing to the revenue series
RevenueSeriesSkippingZero(rows) ==
    SelectSeq([i \in 1 .. Len(rows) |->
                  FloatOrZero(DictGet(rows[i], "total_revenue", PyInt(0)))],
              LAMBDA x : x # 0)

\* revenue_values / item_revenues: one append of
\* float(item.get('total_revenue', 0) or 0) per row
RevenueSeries(rows) ==
    [i \in 1 .. Len(rows) |-> FloatOrZero(DictGet(rows[i], "total_revenue", PyInt(0)))]

\* the dict the try block returns when nothing raises
ShapedCharts(orders_rows, item_rows, status_rows) ==
    LET status_labels ==
            [i \in 1 .. Len(status_rows) |->
                str_title(DictGet(status_rows[i], "status", UnknownStatus).chars)]
    IN [timeline |->
           [labels |-> Take([i \in 1 .. Len(orders_rows) |-> TimelineLabel(orders_rows[i])],
                            ChartPointsLimit),
            orders |-> Take([i \in 1 .. Len(orders_rows) |->
                                DictGet(orders_rows[i], "order_count", 0)],
                            ChartPointsLimit),
            revenue |-> Take(RevenueSeries(orders_rows), ChartPointsLimit)],
        items |->
           [labels |-> Take([i \in 1 .. Len(item_rows) |->
                                ItemLabel(DictGet(item_rows[i], "item_name",
                                                  UnknownItemName).chars)],
                            ChartItemsLimit),
            quantities |-> Take([i \in 1 .. Len(item_rows) |->
                                    DictGet(item_rows[i], "total_quantity", 0)],
                                ChartItemsLimit),
            revenues |-> Take(RevenueSeries(item_rows), ChartItemsLimit)],
        status |->
           [labels |-> status_labels,
            values |-> [i \in 1 .. Len(status_rows) |->
                           DictGet(status_rows[i], "count", 0)],
            colors |-> [i \in 1 .. Len(status_rows) |->
                           StatusColor(str_lower(status_labels[i]))]]]

\* prepare_chart_data(orders_data, top_items, status_data)
prepare_chart_data(orders_data, top_items, status_data) ==
    IF ChartShapingFails(orders_data, top_items, status_data)
    THEN EmptyCharts
    ELSE ShapedCharts(orders_data.items, top_items.items, status_data.items)

----------------------------------------------------------------------------
(* app.py: the statistics routes *)

StatsPeriods == {"today", "week", "month", "all"}

\* stats.get(key, [])
StatsGet(stats, key) == IF key \in stats.keys THEN stats[key] ELSE <<>>

ChartOf(stats) ==
    prepare_chart_data(PyList(StatsGet(stats, "orders_timeline")),
                       PyList(StatsGet(stats, "top_items")),
                       PyList(StatsGet(stats, "status_distribution")))

EmptyDict == [keys |-> {}]

\* stats.get('totals', {})
TotalsOf(stats) == IF "totals" \in stats.keys THEN stats.totals ELSE EmptyDict

\* the statements get_order_statistics executed
StatsOps(stats) == IF stats.keys = {} THEN 0 ELSE 4

\* the JSON body of api_statistics
ApiStatisticsBody(stats) ==
    [timeline |-> ChartOf(stats).timeline, items |-> ChartOf(stats).items,
     status |-> ChartOf(stats).status, totals |-> TotalsOf(stats)]

\* GET /admin/api/statistics?period=
api_statistics(p, time_period, raises) ==
    /\ pc[p] = "idle"
    /\ session' = session
    /\ IF ~admin_login_required(session)
       THEN Answer(p, Redirect("api_statistics", LoggedIn), 0)
       ELSE \E stats \in get_order_statistics(time_period, raises) :
               Answer(p, [Json("api_statistics", TRUE, "", ApiStatisticsBody(stats))
                             EXCEPT !.arg = [period |-> time_period, raises |-> raises],
                                    !.conn = OneConn],
                      StatsOps(stats))

\* the stats handed to statistics.html: the totals also carry their
\* formatted amounts
StatisticsPageBody(stats, time_period) ==
    [stats |-> stats,
     formatted |-> IF "totals" \in stats.keys
                   THEN [total_revenue_formatted |->
                            format_currency(stats.totals.total_revenue),
                         avg_order_value_formatted |->
                            format_currency(stats.totals.avg_order_value)]
                   ELSE <<>>,
     chart_data |-> ChartOf(stats), time_period |-> time_period]

\* GET /admin/statistics?period=
admin_statistics(p, time_period, raises) ==
    /\ pc[p] = "idle"
    /\ session' = session
    /\ IF ~admin_login_required(session)
       THEN Answer(p, Redirect("statistics", LoggedIn), 0)
       ELSE \E stats \in get_order_statistics(time_period, raises) :
               Answer(p, [Html("statistics", "", StatisticsPageBody(stats, time_period))
                             EXCEPT !.arg = [period |-> time_period, raises |-> raises],
                                    !.conn = OneConn],
                      StatsOps(stats))

----------------------------------------------------------------------------
(* models.py: get_all_orders *)

\* text ILIKE '%search%', for a search text without the wildcards % and _
ILikeContains(text, search) ==
    \E i \in 0 .. Len(text) - Len(search) :
        str_lower(SubSeq(text, i + 1, i + Len(search))) = str_lower(search)

\* the WHERE clause built from the status and search arguments
OrderMatches(o, status, search) ==
    /\ status # "" => orders[o].status = status
    /\ search # <<>> =>
          \/ ILikeContains(orders[o].user_name, search)
          \/ ILikeContains(orders[o].user_phone, search)
          \/ ILikeContains(orders[o].user_email, search)
          \/ ILikeContains(IntText(o), search)

\* a bug: the offset of page p starts after p pages
OffsetAfterPage(page, per_page) == page * per_page

\* offset = (page - 1) * per_page
Offset(page, per_page) == (page - 1) * per_page

\* the row of the first query for order o: the selected columns and the
\* two joined ones; the order has at most one payment, hence one group
OrderListRow(o) ==
    [order_id |-> o, status |-> orders[o].status, order_date |-> orders[o].order_date,
     total_amount |-> orders[o].total_amount,
     item_count |-> Cardinality({i \in DOMAIN order_items : order_items[i].order_id = o}),
     payment_status |-> IF o \in DOMAIN payments THEN payments[o] ELSE "NULL"]

\* the orders of M in an order ORDER BY o.order_date DESC may produce
RECURSIVE NewestFirst(_)
NewestFirst(M) ==
    IF M = {} THEN {<<>>}
    ELSE UNION {{<<m>> \o s : s \in NewestFirst(M \ {m})} :
                  m \in {x \in M : \A y \in M :
                            orders[x].order_date >= orders[y].order_date}}

\* LIMIT per_page OFFSET offset
LimitOffset(s, per_page, offset) ==
    IF offset >= Len(s) THEN <<>>
    ELSE SubSeq(s, offset + 1, Min(offset + per_page, Len(s)))

\* the values get_all_orders(page, per_page, status, search) may return;
\* raises: a statement of it raises.  A negative OFFSET or LIMIT is an error
\* of the first query.
get_all_orders(page, per_page, status, search, raises) ==
    LET M == {o \in DOMAIN orders : OrderMatches(o, status, search)}
    IN IF raises \/ Offset(page, per_page) < 0 \/ per_page < 0
       THEN {[rows |-> <<>>, total |-> 0]}
       ELSE {[rows |-> [i \in DOMAIN LimitOffset(s, per_page, Offset(page, per_page)) |->
                           OrderListRow(LimitOffset(s, per_page, Offset(page, per_page))[i])],
              total |-> Cardinality(M)] : s \in NewestFirst(M)}

\* models.py get_todays_orders: the row of order o
TodaysOrderRow(o) ==
    [order_id |-> o, user_name |-> orders[o].user_name,
     user_phone |-> orders[o].user_phone, total_amount |-> orders[o].total_amount,
     status |-> orders[o].status, order_date |-> orders[o].order_date,
     item_count |-> Cardinality({i \in DOMAIN order_items : order_items[i].order_id = o})]

\* the orders the WHERE clause keeps: those of the date of today_start,
\* which is ist_now() at midnight (the clock of the model is the wall clock
\* of the shop; the conversions between time zones are not modelled)
TodaysOrders ==
    {o \in DOMAIN orders : StartOfDay(orders[o].order_date) = StartOfDay(StartOfDay(now))}

\* the order ids of the rows models.py get_todays_orders() may return, in
\* the order of the rows: the statement has ORDER BY order_date DESC and no
\* LIMIT; the except clause returns []
TodaysOrderIds(raises) ==
    IF raises THEN {<<>>} ELSE NewestFirst(TodaysOrders)

\* the values models.py get_todays_orders() may return
get_todays_orders(raises) ==
    {[i \in DOMAIN s |-> TodaysOrderRow(s[i])] : s \in TodaysOrderIds(raises)}

\* oapp.py get_todays_orders: WHERE DATE(o.order_date) = CURRENT_DATE ...
\* ORDER BY o.order_date DESC LIMIT 20
OappTodaysLimit == 20
oapp_todays_order_ids ==
    {Take(s, OappTodaysLimit) :
        s \in NewestFirst({o \in DOMAIN orders :
                 StartOfDay(orders[o].order_date) = StartOfDay(now)})}

----------------------------------------------------------------------------
(* app.py and 9app.py: the order list route *)

\* per_page = 20 of the routes, the default of get_all_orders
OrdersPerPage == 20

\* (total + per_page - 1) // per_page if total > 0 else 1
TotalPages(total) ==
    IF total > 0 THEN (total + OrdersPerPage - 1) \div OrdersPerPage ELSE 1

\* 9app.py: (total + per_page - 1) // per_page
TotalPagesOrZero(total) == (total + OrdersPerPage - 1) \div OrdersPerPage

\* app.py admin_orders: the arguments of render_template('orders.html')
\* for the pair get_all_orders returned: page, current_status and
\* current_search are the constants 1, '' and ''
OrdersView(fetched, page, status, search) ==
    [orders |-> fetched.rows, page |-> 1, total_pages |-> TotalPages(fetched.total),
     total |-> fetched.total, current_status |-> "", current_search |-> <<>>]

\* 9app.py admin_orders: the arguments of render_template('orders.html')
OrdersView9(fetched, page, status, search) ==
    [orders |-> fetched.rows, page |-> page,
     total_pages |-> TotalPagesOrZero(fetched.total),
     total |-> fetched.total, current_status |-> status, current_search |-> search]

\* GET /admin/orders?page=&status=&search= of app.py; raises: a statement
\* of get_all_orders raises
admin_orders(p, page, status, search, raises) ==
    /\ pc[p] = "idle"
    /\ session' = session
    /\ IF ~admin_login_required(session)
       THEN Answer(p, Redirect("orders", LoggedIn), 0)
       ELSE \E fetched \in get_all_orders(page, OrdersPerPage, status, search, raises) :
               Answer(p, [Html("orders", "", OrdersView(fetched, page, status, search))
                             EXCEPT !.arg = [page |-> page, status |-> status,
                                             search |-> search, raises |-> raises],
                                    !.conn = OneConn],
                      IF raises THEN 1 ELSE 2)

\* GET /admin/orders?page=&status=&search= of 9app.py
admin_orders9(p, page, status, search, raises) ==
    /\ pc[p] = "idle"
    /\ session' = session
    /\ IF ~admin_login_required(session)
       THEN Answer(p, Redirect("9app.orders", LoggedIn), 0)
       ELSE \E fetched \in get_all_orders(page, OrdersPerPage, status, search, raises) :
               Answer(p, [Html("9app.orders", "", OrdersView9(fetched, page, status, search))
                             EXCEPT !.arg = [page |-> page, status |-> status,
                                             search |-> search, raises |-> raises],
                                    !.conn = OneConn],
                      IF raises THEN 1 ELSE 2)

----------------------------------------------------------------------------
(* The query specification: the read-only repository functions applied to *)
(* order tables drawn from bounded sets                                   *)

MaxOrders == 3
MaxPage == 3
MaxPerPage == 2

QueryStatuses == {"pending", "delivered"}
\* today; this month but not today; within the last 7 days but last month;
\* longer ago
QueryDates == {SpecNow - 1, SpecNow - HoursPerDay, SpecNow - 5 * HoursPerDay,
               SpecNow - HoursPerMonth}
QuerySearches == {<<>>, <<"b", "A">>, <<"1">>}
QueryStatusFilters == {"", "pending"}

AdminSession == [keys |-> {"admin_logged_in", "admin_username", "login_time"},
                 admin_username |-> ADMIN_USERNAME, login_time |-> SpecNow]

\* order ids are serial: a later order has a later (or the same) order_date
InitQuery ==
    /\ now = SpecNow
    /\ \E n \in 0 .. MaxOrders :
          /\ \E st \in [1 .. n -> QueryStatuses], d \in [1 .. n -> QueryDates] :
                /\ \A i \in 1 .. n - 1 : d[i] <= d[i + 1]
                /\ orders = [o \in 1 .. n |->
                                OrderRow(IF o <= Len(Amounts) THEN o ELSE Len(Amounts),
                                         st[o], d[o], IF o = 1 THEN 1 ELSE 0)]
          /\ order_items = ItemsOf(1 .. n)
          /\ payments = [o \in {1} \cap (1 .. n) |-> "completed"]
    /\ order_logs = <<>>
    /\ users = {1}
    /\ session \in {NoSession, AdminSession}
    /\ query = NoQuery
    /\ admin_db = InitializedAdminDb
    /\ InitWorkers

GetAllOrders(page, per_page, status, search, raises) ==
    /\ \E r \in get_all_orders(page, per_page, status, search, raises) :
          query' = [fn |-> "get_all_orders", page |-> page, per_page |-> per_page,
                    status |-> status, search |-> search, raises |-> raises,
                    result |-> r]
    /\ resp' = [resp EXCEPT ![1] = NoResp]
    /\ UNCHANGED <<db_vars, now, session, pc, call, old_status, txn, conns,
                   db_ops, ret, pre, fault>>

GetOrderStatistics(time_period, raises) ==
    /\ \E r \in get_order_statistics(time_period, raises) :
          query' = [fn |-> "get_order_statistics", time_period |-> time_period,
                    raises |-> raises, result |-> r]
    /\ resp' = [resp EXCEPT ![1] = NoResp]
    /\ UNCHANGED <<db_vars, now, session, pc, call, old_status, txn, conns,
                   db_ops, ret, pre, fault>>

\* one call of get_order_details; ops: the statements it executed
GetOrderDetails(order_id, raises) ==
    /\ query' = [fn |-> "get_order_details", order_id |-> order_id, raises |-> raises,
                 result |-> get_order_details(order_id, raises),
                 ops |-> OrderDetailsOps(order_id, raises)]
    /\ resp' = [resp EXCEPT ![1] = NoResp]
    /\ UNCHANGED <<db_vars, now, session, pc, call, old_status, txn, conns,
                   db_ops, ret, pre, fault>>

\* oapp.py: the outcomes of a call: it runs through, get_db_connection
\* returns None, or a query raises
OappOutcomes == {"ok", "no_connection", "query_raises"}

\* oapp.py get_todays_orders: conn.close() is reached only when the query
\* returns; the except clause returns [] and leaves the connection as it is
oapp_get_todays_orders(outcome) ==
    /\ query' = [fn |-> "oapp.get_todays_orders", outcome |-> outcome,
                 result |-> IF outcome = "ok" THEN oapp_todays_order_ids ELSE {<<>>}]
    /\ conns' = [conns EXCEPT ![1] = IF outcome = "query_raises" THEN @ + 1 ELSE @]
    /\ resp' = [resp EXCEPT ![1] = NoResp]
    /\ UNCHANGED <<db_vars, now, session, pc, call, old_status, txn,
                   db_ops, ret, pre, fault>>

\* oapp.py get_order_details: conn.close() on the not-found path and on the
\* success path, none in the except clause
oapp_get_order_details(order_id, outcome) ==
    /\ query' = [fn |-> "oapp.get_order_details", order_id |-> order_id,
                 outcome |-> outcome,
                 result |-> IF outcome = "ok" /\ order_id \in DOMAIN orders
                            THEN PyDict([order |-> orders[order_id],
                                         items |-> SelectSeq(order_items,
                                                     LAMBDA r : r.order_id = order_id),
                                         customer |-> orders[order_id].user_id,
                                         payment |-> OrderWithPayment(order_id).payment_status])
                            ELSE PyNoneResult]
    /\ conns' = [conns EXCEPT ![1] = IF outcome = "query_raises" THEN @ + 1 ELSE @]
    /\ resp' = [resp EXCEPT ![1] = NoResp]
    /\ UNCHANGED <<db_vars, now, session, pc, call, old_status, txn,
                   db_ops, ret, pre, fault>>

\* one application per drawn table
Fresh == query = NoQuery /\ resp[1] = NoResp

NextQuery ==
    \/ /\ Fresh
       /\ \E page \in 0 .. MaxPage, per_page \in 1 .. MaxPerPage,
             status \in QueryStatusFilters, search \in QuerySearches,
             raises \in BOOLEAN : GetAllOrders(page, per_page, status, search, raises)
    \/ /\ Fresh
       /\ \E t \in StatsPeriods, raises \in BOOLEAN : GetOrderStatistics(t, raises)
    \/ /\ Fresh
       /\ \E o \in 1 .. MaxOrders + 1, raises \in BOOLEAN : GetOrderDetails(o, raises)
    \/ /\ Fresh
       /\ \E outcome \in OappOutcomes : oapp_get_todays_orders(outcome)
    \/ /\ Fresh
       /\ \E o \in 1 .. MaxOrders + 1, outcome \in OappOutcomes :
             oapp_get_order_details(o, outcome)
    \/ /\ Fresh
       /\ \E t \in StatsPeriods, raises \in BOOLEAN : api_statistics(1, t, raises)
    \/ /\ Fresh
       /\ \E t \in StatsPeriods, raises \in BOOLEAN : admin_statistics(1, t, raises)
    \/ /\ Fresh
       /\ \E page \in 0 .. MaxPage, status \in QueryStatusFilters,
             search \in QuerySearches, raises \in BOOLEAN :
             admin_orders(1, page, status, search, raises)
    \/ /\ Fresh
       /\ \E page \in 0 .. MaxPage, status \in QueryStatusFilters,
             search \in QuerySearches, raises \in BOOLEAN :
             admin_orders9(1, page, status, search, raises)

SpecQuery == InitQuery /\ [][NextQuery]_vars

----------------------------------------------------------------------------
(* The chart specification: prepare_chart_data applied to inputs drawn    *)
(* from bounded sets                                                      *)

\* the longest timeline and the longest top-items list handed in
MaxBuckets == 21
MaxTopItems == 11

\* a word that is no number
NotANumber == PyStr(<<"n", "/", "a">>)

\* bucket i of a timeline as the statistics query returns it
TimelineRow(i) ==
    [period |-> i, period_type |-> "date", order_count |-> i,
     total_revenue |-> SqlInt(100 * i)]

\* the last row of a drawn timeline, by variant
TimelineVariant(v, i) ==
    CASE v = "ok" -> TimelineRow(i)
      [] v = "datetime" -> [TimelineRow(i) EXCEPT !.period_type = "datetime"]
      [] v = "null_revenue" -> [TimelineRow(i) EXCEPT !.total_revenue = SqlNull]
      [] v = "no_keys" -> [order_count |-> i]
      [] v = "text_revenue" -> [TimelineRow(i) EXCEPT !.total_revenue = NotANumber]
      [] OTHER -> PyNone

TimelineVariants == {"ok", "datetime", "null_revenue", "no_keys", "text_revenue", "none_row"}

\* the timelines drawn: well-formed rows, the last one replaced by a variant
ChartTimelines ==
    {PyNone, PyInt(5)} \cup
    {PyList([i \in 1 .. n |-> IF i = n THEN TimelineVariant(v, i) ELSE TimelineRow(i)]) :
        n \in {0, 1, ChartPointsLimit, MaxBuckets}, v \in TimelineVariants}

LongItemName ==
    <<"C", "h", "i", "c", "k", "e", "n", " ", "T", "i", "k", "k", "a", " ",
      "M", "a", "s", "a", "l", "a", "s">>
ShortItemName == <<"P", "i", "z", "z", "a">>

\* item i of a top-items list as the statistics query returns it
TopItemRow(i) ==
    [item_name |-> PyStr(ShortItemName \o IntText(i)), item_type |-> "menu",
     total_quantity |-> 30 - i, total_revenue |-> SqlInt(50 * (30 - i))]

TopItemVariant(v, i) ==
    CASE v = "ok" -> TopItemRow(i)
      [] v = "long_name" -> [TopItemRow(i) EXCEPT !.item_name = PyStr(LongItemName)]
      [] v = "no_keys" -> [item_type |-> "menu"]
      [] v = "none_name" -> [TopItemRow(i) EXCEPT !.item_name = PyNone]
      [] OTHER -> PyNone

TopItemVariants == {"ok", "long_name", "no_keys", "none_name", "none_row"}

ChartTopItems ==
    {PyNone} \cup
    {PyList([i \in 1 .. n |-> IF i = n THEN TopItemVariant(v, i) ELSE TopItemRow(i)]) :
        n \in {0, 1, ChartItemsLimit, MaxTopItems}, v \in TopItemVariants}

\* the rows of a status distribution
ChartStatusRows ==
    {[status |-> PyStr(Chars("delivered")), count |-> 7],
     [status |-> PyStr(Chars("unknown_status")), count |-> 1],
     [status |-> PyStr(Chars("refunded")), count |-> 2],
     [status |-> PyStr(str_title(Chars("shipped"))), count |-> 3],
     [status |-> PyNone, count |-> 4],
     [count |-> 5]}

MaxStatusRows == 2

ChartStatusData ==
    {PyNone} \cup
    {PyList(rows) : rows \in UNION {[1 .. n -> ChartStatusRows] : n \in 0 .. MaxStatusRows}}

InitChart ==
    /\ now = SpecNow
    /\ orders = <<>>
    /\ order_logs = <<>>
    /\ payments = <<>>
    /\ order_items = <<>>
    /\ users = {}
    /\ session = NoSession
    /\ \E od \in ChartTimelines, ti \in ChartTopItems, sd \in ChartStatusData :
          query = [fn |-> "chart_input", orders_data |-> od, top_items |-> ti,
                   status_data |-> sd]
    /\ admin_db = InitializedAdminDb
    /\ InitWorkers

\* one call of prepare_chart_data on the drawn input
PrepareChartData ==
    /\ query.fn = "chart_input"
    /\ query' = [fn |-> "prepare_chart_data", orders_data |-> query.orders_data,
                 top_items |-> query.top_items, status_data |-> query.status_data,
                 result |-> prepare_chart_data(query.orders_data, query.top_items,
                                               query.status_data)]
    /\ UNCHANGED <<db_vars, now, session, worker_vars>>

NextChart == PrepareChartData

SpecChart == InitChart /\ [][NextChart]_vars

----------------------------------------------------------------------------
(* The today specification: get_todays_orders applied to order tables of  *)
(* a busy day                                                             *)

\* the most orders placed on the current day
MaxTodaysOrders == 21

\* the clock: the last hour of the day of SpecNow
TodayNow == StartOfDay(SpecNow) + HoursPerDay - 1

\* n orders of today, one per hour from midnight on, or (same_hour) all of
\* the first hour; older: one more order, of the last hour of yesterday
InitToday ==
    /\ now = TodayNow
    /\ \E n \in 0 .. MaxTodaysOrders, same_hour \in BOOLEAN, older \in 0 .. 1 :
          /\ same_hour => n \in 2 .. MaxOrders
          /\ orders = [o \in 1 .. n + older |->
                          OrderRow(((o - 1) % Len(Amounts)) + 1,
                                   IF o % 2 = 0 THEN "delivered" ELSE "pending",
                                   IF o > n THEN StartOfDay(TodayNow) - 1
                                   ELSE IF same_hour THEN StartOfDay(TodayNow)
                                   ELSE StartOfDay(TodayNow) + ((o - 1) % HoursPerDay),
                                   0)]
          /\ order_items = ItemsOf(1 .. n + older)
    /\ payments = <<>>
    /\ order_logs = <<>>
    /\ users = {}
    /\ session = NoSession
    /\ query = NoQuery
    /\ admin_db = InitializedAdminDb
    /\ InitWorkers

\* one call of models.py get_todays_orders
GetTodaysOrders(raises) ==
    /\ \E r \in get_todays_orders(raises) :
          query' = [fn |-> "get_todays_orders", raises |-> raises, result |-> r]
    /\ resp' = [resp EXCEPT ![1] = NoResp]
    /\ UNCHANGED <<db_vars, now, session, pc, call, old_status, txn, conns,
                   db_ops, ret, pre, fault>>

NextToday ==
    \/ /\ Fresh
       /\ \E raises \in BOOLEAN : GetTodaysOrders(raises)
    \/ /\ Fresh
       /\ \E outcome \in OappOutcomes : oapp_get_todays_orders(outcome)

SpecToday == InitToday /\ [][NextToday]_vars

----------------------------------------------------------------------------
(* The initialisation specification: init_admin_tables run on databases   *)
(* that hold any subset of the admin tables                               *)

\* the most runs of init_admin_tables on one database
MaxInitRuns == 3

\* admin_settings is created and seeded in one transaction, so where it
\* exists it holds the default settings
InitAdminTables ==
    /\ now = SpecNow
    /\ orders = <<>>
    /\ order_items = <<>>
    /\ payments = <<>>
    /\ order_logs = <<>>
    /\ users = {}
    /\ session = NoSession
    /\ query = [fn |-> "none", runs |-> 0, first |-> {}]
    /\ \E T \in SUBSET AdminTables :
          admin_db = [tables |-> T,
                      settings |-> IF "admin_settings" \in T
                                   THEN DefaultSettingKeys ELSE <<>>]
    /\ InitWorkers

\* CREATE TABLE IF NOT EXISTS for each of the four tables
CreateAdminTables(db) == [db EXCEPT !.tables = @ \cup AdminTables]

\* one INSERT per default setting
InsertDefaultSettings(db) == [db EXCEPT !.settings = @ \o DefaultSettingKeys]

\* the database after a run of init_admin_tables that raises nothing: only
\* the existence of admin_settings is tested
AdminDbAfterInit(db) ==
    IF "admin_settings" \notin db.tables
    THEN InsertDefaultSettings(CreateAdminTables(db))
    ELSE db

\* one run of init_admin_tables; raises: connecting or a statement raises,
\* the with block rolls back and the exception is raised again.
\* query.first: the tables that existed before the first run.
init_admin_tables(raises) ==
    /\ query.runs < MaxInitRuns
    /\ admin_db' = IF raises THEN admin_db ELSE AdminDbAfterInit(admin_db)
    /\ query' = [fn |-> "init_admin_tables", raised |-> raises,
                 runs |-> query.runs + 1,
                 first |-> IF query.runs = 0 THEN admin_db.tables ELSE query.first]
    /\ UNCHANGED <<orders, order_logs, payments, order_items, users, now, session,
                   worker_vars>>

NextInit == \E raises \in BOOLEAN : init_admin_tables(raises)

SpecInit == InitAdminTables /\ [][NextInit]_vars

----------------------------------------------------------------------------
(* utils.py: get_time_period_dates, and the utility specification         *)

\* a Python datetime: the tick it stands for, and whether it carries a
\* time zone (aware) or not (naive)
Datetime(t, aware) == [t |-> t, aware |-> aware]

\* config.py ist_now(): the aware datetime of the clock
ist_now == Datetime(now, TRUE)

\* datetime.min: the naive datetime of year 1
datetime_min == Datetime(MinTimestamp, FALSE)

\* a <= b of two datetimes: Python raises TypeError when one is aware and
\* the other naive
DatetimeLe(a, b) == [raises |-> a.aware # b.aware, value |-> a.t <= b.t]

\* .replace(hour=23, minute=59, second=59, microsecond=999999): the last
\* tick of the day
EndOfDay(t) == StartOfDay(t) + HoursPerDay - 1

\* now - timedelta(days=7)
WeekStart(t) == t - DaysPerWeek * HoursPerDay

\* get_time_period_dates(period): the pair it returns
get_time_period_dates(period) ==
    CASE period = "today" ->
            [start |-> Datetime(StartOfDay(now), TRUE), end |-> ist_now]
      [] period = "yesterday" ->
            [start |-> Datetime(StartOfDay(now - HoursPerDay), TRUE),
             end |-> Datetime(EndOfDay(now - HoursPerDay), TRUE)]
      [] period = "week" ->
            [start |-> Datetime(WeekStart(now), TRUE), end |-> ist_now]
      [] period = "month" ->
            [start |-> Datetime(StartOfMonth(now), TRUE), end |-> ist_now]
      [] period = "last_month" ->
            LET last_day_last_month == StartOfMonth(now) + (now % HoursPerDay) - HoursPerDay
            IN [start |-> Datetime(StartOfMonth(last_day_last_month), TRUE),
                end |-> Datetime(EndOfDay(last_day_last_month), TRUE)]
      [] OTHER ->
            [start |-> datetime_min, end |-> ist_now]

\* the keywords handed in: the six of the code and one it does not know
UtilPeriods == {"today", "yesterday", "week", "month", "last_month", "all", "year"}

\* the amounts handed to format_currency
UtilAmounts ==
    {PyNone, SqlNull, PyInt(0), PyInt(7), PyInt(450), PyInt(1234), PyInt(1234567),
     PyInt(0 - 1234), SqlInt(380), PyStr(<<"1", "2">>), PyStr(<<>>), NotANumber,
     PyList(<<>>)}

\* the clock is drawn from the hours around the turn of a month
MaxClockOffset == 30

InitUtil ==
    /\ now \in 2 * HoursPerMonth - MaxClockOffset .. 2 * HoursPerMonth + MaxClockOffset
    /\ orders = <<>>
    /\ order_items = <<>>
    /\ payments = <<>>
    /\ order_logs = <<>>
    /\ users = {}
    /\ session = NoSession
    /\ query = NoQuery
    /\ admin_db = InitializedAdminDb
    /\ InitWorkers

GetTimePeriodDates(period) ==
    /\ query' = [fn |-> "get_time_period_dates", period |-> period,
                 result |-> get_time_period_dates(period)]
    /\ resp' = [resp EXCEPT ![1] = NoResp]
    /\ UNCHANGED <<db_vars, now, session, pc, call, old_status, txn, conns,
                   db_ops, ret, pre, fault>>

FormatCurrency(amount) ==
    /\ query' = [fn |-> "format_currency", amount |-> amount,
                 result |-> format_currency(amount)]
    /\ resp' = [resp EXCEPT ![1] = NoResp]
    /\ UNCHANGED <<db_vars, now, session, pc, call, old_status, txn, conns,
                   db_ops, ret, pre, fault>>

NextUtil ==
    \/ /\ Fresh
       /\ \E period \in UtilPeriods : GetTimePeriodDates(period)
    \/ /\ Fresh
       /\ \E amount \in UtilAmounts : FormatCurrency(amount)

SpecUtil == InitUtil /\ [][NextUtil]_vars

----------------------------------------------------------------------------
(* The concurrent specification: every worker runs update_order_status on *)
(* its own connection, one connection runs the four queries of            *)
(* get_order_statistics, and another application inserts orders           *)

\* the order the concurrent updates aim at
SharedOrderId == CHOOSE o \in OrderIds : \A x \in OrderIds : o <= x

\* the most orders inserted while the model runs
MaxInserted == 1

\* the keywords whose branch of get_order_statistics raises nothing
ConcPeriods == {t \in StatsPeriods : ~StatsWindow(t, SpecNow).raised}

\* the ordering application commits a new order, placed now
InsertOrder ==
    /\ Cardinality(DOMAIN orders) < Cardinality(OrderIds) + MaxInserted
    /\ LET o == Cardinality(DOMAIN orders) + 1
       IN orders' = orders @@ (o :> OrderRow(o, "pending", now, 0))
    /\ UNCHANGED <<order_logs, static_vars, session, worker_vars, query>>

\* the orders of the window of the running get_order_statistics, as the
\* statement that runs now sees them: the committed rows (READ COMMITTED,
\* the default of the connection, gives every statement its own snapshot)
StatsOrdersNow ==
    OrdersBetween(StatsWindow(query.time_period, now).start,
                  StatsWindow(query.time_period, now).end)

\* query 1 of get_order_statistics(time_period)
StatsTimelineQuery(time_period) ==
    /\ query = NoQuery
    /\ LET w == StatsWindow(time_period, now)
       IN query' = [fn |-> "get_order_statistics", time_period |-> time_period,
                    step |-> 1,
                    result |-> [EmptyStats EXCEPT
                                  !.orders_timeline =
                                      OrdersTimeline(OrdersBetween(w.start, w.end),
                                                     w.group_by)]]
    /\ UNCHANGED <<db_vars, now, session, worker_vars>>

\* query 2
StatsTopItemsQuery ==
    /\ query.fn = "get_order_statistics" /\ query.step = 1
    /\ \E top \in TopItemResults(StatsOrdersNow) :
          query' = [query EXCEPT !.step = 2, !.result.top_items = top]
    /\ UNCHANGED <<db_vars, now, session, worker_vars>>

\* query 3
StatsStatusQuery ==
    /\ query.fn = "get_order_statistics" /\ query.step = 2
    /\ \E dist \in StatusResults(StatsOrdersNow) :
          query' = [query EXCEPT !.step = 3, !.result.status_distribution = dist]
    /\ UNCHANGED <<db_vars, now, session, worker_vars>>

\* query 4, and the return of the dict
StatsTotalsQuery ==
    /\ query.fn = "get_order_statistics" /\ query.step = 3
    /\ query' = [query EXCEPT !.step = 4, !.result.totals = Totals(StatsOrdersNow),
                               !.result.keys = StatsKeys]
    /\ UNCHANGED <<db_vars, now, session, worker_vars>>

NextConc ==
    \/ \E p \in Workers :
          \/ \E s \in CallStatuses, n \in CallNotes :
                CallUpdateOrderStatus(p, SharedOrderId, s, PyNone, n)
          \/ Connect(p)
          \/ SelectStatus(p)
          \/ UpdateStatus(p)
          \/ InsertLog(p)
          \/ Commit(p)
          \/ StatementFault(p)
          \/ Return(p)
    \/ InsertOrder
    \/ \E t \in ConcPeriods : StatsTimelineQuery(t)
    \/ StatsTopItemsQuery
    \/ StatsStatusQuery
    \/ StatsTotalsQuery

SpecConc == Init /\ [][NextConc]_vars

----------------------------------------------------------------------------
(* The session specification: login, logout and page requests on one      *)
(* session, with every combination of the posted credentials              *)

\* the status the update requests of the session specification post (the
\* INSERT of such an update fails on the admin_id it is given, so no
\* commit follows)
SessionFormStatuses == {PyNone, PyStr(<<" ">> \o Chars("processing") \o <<" ">>)}

NextSession ==
    \E p \in {1} :
        \/ \E u \in LoginUsernames, pw \in LoginPasswords : admin_login(p, u, pw)
        \/ admin_logout(p)
        \/ \E s \in SessionFormStatuses, n \in FormNotes :
              admin_update_order_status(p, SharedOrderId, s, n)
        \/ Connect(p)
        \/ SelectStatus(p)
        \/ UpdateStatus(p)
        \/ InsertLog(p)
        \/ Return(p)
        \/ \E o \in CallOrderIds, raises \in BOOLEAN : admin_order_details(p, o, raises)
        \/ \E r \in ReadRoutes : admin_read_route(p, r)
        \/ \E o \in CallOrderIds : admin_order_customer(p, o)
        \/ \E t \in StatsPeriods, raises \in BOOLEAN : api_statistics(p, t, raises)
        \/ \E t \in StatsPeriods, raises \in BOOLEAN : admin_statistics(p, t, raises)
        \/ \E page \in 0 .. MaxPage, status \in QueryStatusFilters,
              search \in QuerySearches, raises \in BOOLEAN :
              admin_orders(p, page, status, search, raises)

SpecSession == Init /\ [][NextSession]_vars

----------------------------------------------------------------------------
(* The sequential specification: one worker, one request at a time *)

Next ==
    \E p \in {1} :
        \/ \E u \in {ADMIN_USERNAME, <<>>} : admin_login(p, u, ADMIN_PASSWORD)
        \/ admin_logout(p)
        \/ \E o \in CallOrderIds, s \in CallStatuses, a \in CallAdminIds,
              n \in CallNotes : CallUpdateOrderStatus(p, o, s, a, n)
        \/ \E o \in CallOrderIds, s \in FormStatuses, n \in FormNotes :
              admin_update_order_status(p, o, s, n)
        \/ Connect(p)
        \/ ConnectFault(p)
        \/ SelectStatus(p)
        \/ UpdateStatus(p)
        \/ InsertLog(p)
        \/ Commit(p)
        \/ StatementFault(p)
        \/ CommitReplyLost(p)
        \/ Return(p)
        \/ \E o \in CallOrderIds, raises \in BOOLEAN : admin_order_details(p, o, raises)
        \/ \E r \in ReadRoutes : admin_read_route(p, r)
        \/ \E o \in CallOrderIds : admin_order_customer(p, o)
        \/ \E t \in StatsPeriods, raises \in BOOLEAN : api_statistics(p, t, raises)
        \/ \E t \in StatsPeriods, raises \in BOOLEAN : admin_statistics(p, t, raises)

Spec == Init /\ [][Next]_vars

----------------------------------------------------------------------------
(* update_order_status: the log row, atomicity, not-found, faults *)

\* the call of worker p has finished and its result is about to be used
Returned(p) == pc[p] = "return"
OrderExisted(p) == call[p].order_id \in DOMAIN pre[p].orders
\* the log row the call of worker p is to add, from the arguments and the
\* table as it was when the call started
ExpectedLogRow(p, admin_val) ==
    LogRow(call[p].order_id, admin_val, call[p].notes,
           pre[p].orders[call[p].order_id].status, call[p].new_status)
IntegerOrNone(v) == IF v.tag = "int" THEN SqlInt(v.n) ELSE SqlNull
BothWritten(p, admin_val) ==
    /\ orders = [pre[p].orders EXCEPT ![call[p].order_id].status = call[p].new_status]
    /\ order_logs = Append(pre[p].order_logs, ExpectedLogRow(p, admin_val))
LoggedAdminIds == {order_logs[i].admin_id : i \in DOMAIN order_logs}
NothingWritten(p) ==
    /\ orders = pre[p].orders
    /\ order_logs = pre[p].order_logs

\* C1: a call of update_order_status on an existing order, struck by no
\* data-access fault and given no admin_id or an integer one, appends exactly
\* one order_logs row for that order, with old_status the status the order had
\* just before the call and new_status the requested status, and sets the
\* order's status to the requested status, also when old and new are equal.
C1_OneLogRowPerUpdate ==
    \A p \in Workers :
        (Returned(p) /\ OrderExisted(p) /\ fault[p] = "none"
            /\ call[p].admin_id.tag # "str")
        => /\ BothWritten(p, IntegerOrNone(call[p].admin_id))
           /\ ret[p].ok

C1_Witness ==
    \E p \in Workers :
        /\ Returned(p) /\ OrderExisted(p) /\ fault[p] = "none"
        /\ call[p].admin_id = PyNone
        /\ call[p].new_status = pre[p].orders[call[p].order_id].status
        /\ Len(order_logs) = Len(pre[p].order_logs) + 1

\* C2: while a call of update_order_status runs and after it has ended,
\* whatever statement a fault strikes, the committed tables hold either the
\* new status together with its log row, or neither of the two.
C2_StatusAndLogAtomic ==
    \A p \in Workers :
        (pc[p] # "idle" /\ OrderExisted(p))
        => \/ NothingWritten(p)
           \/ \E a \in LoggedAdminIds : BothWritten(p, a)

\* a fault struck the INSERT, after the UPDATE had been executed
C2_Witness ==
    \E p \in Workers :
        /\ Returned(p) /\ OrderExisted(p) /\ fault[p] = "insert"
        /\ call[p].new_status # pre[p].orders[call[p].order_id].status
        /\ NothingWritten(p)

\* C3: a call of update_order_status on an order id that does not exist
\* writes nothing, in its transaction or in the committed tables, and returns
\* (False, "Order not found") unless a fault struck it, in which case it
\* returns a failure too.
C3_NotFoundWritesNothing ==
    \A p \in Workers :
        (pc[p] # "idle" /\ ~OrderExisted(p))
        => /\ NothingWritten(p)
           /\ txn[p] = NoWrites
           /\ Returned(p) => ~ret[p].ok
           /\ (Returned(p) /\ fault[p] = "none") => ret[p] = Failure("Order not found")

C3_Witness ==
    \E p \in Workers :
        /\ Returned(p) /\ call[p].order_id = MissingOrderId
        /\ ret[p] = Failure("Order not found") /\ db_ops[p] = 1

\* C4: update_order_status returns success only when no fault struck and
\* both the status and the log row are committed; a fault at the connect,
\* the SELECT, the UPDATE, the INSERT or the COMMIT gives a failure with a
\* message.
C4_SuccessOnlyWhenCommitted ==
    \A p \in Workers :
        Returned(p)
        => /\ ret[p].ok => /\ fault[p] = "none"
                           /\ OrderExisted(p)
                           /\ \E a \in LoggedAdminIds :
                                  BothWritten(p, a)
           /\ fault[p] # "none" => (~ret[p].ok /\ ret[p].msg # "")

C4_Witness ==
    \E p \in Workers :
        /\ Returned(p) /\ OrderExisted(p) /\ fault[p] = "commit"
        /\ ~ret[p].ok /\ NothingWritten(p)

\* C9 (as claimed): a call made by the update-status route on an existing
\* order, with the admin's username as admin_id, returns success, sets the
\* status and appends the log row.
C9_RouteUpdateSucceeds ==
    \A p \in Workers :
        (Returned(p) /\ call[p].via = "route" /\ OrderExisted(p) /\ fault[p] = "none")
        => /\ ret[p].ok
           /\ orders[call[p].order_id].status = call[p].new_status
           /\ Len(order_logs) = Len(pre[p].order_logs) + 1

----------------------------------------------------------------------------
(* The login gate and the order-detail route *)

\* C5: a request to a gated route made without admin_logged_in in the
\* session is answered by the redirect to the login page and runs nothing:
\* no statement, no open connection, no call of update_order_status.
C5_GateBlocksUnauthenticated ==
    \A p \in Workers :
        (resp[p].route \in ProtectedRoutes /\ ~resp[p].authed)
        => /\ resp[p].kind = "redirect_login"
           /\ db_ops[p] = 0
           /\ conns[p] = 0
           /\ pc[p] = "idle"
           /\ txn[p] = NoWrites

C5_Witness ==
    \E p \in Workers :
        /\ resp[p].route = "update_status" /\ ~resp[p].authed
        /\ resp[p].kind = "redirect_login"

\* C6 (as claimed): the order-detail route, asked by a logged-in admin for an
\* existing order with no data-access fault, answers success with the fields
\* order, items, customer, payment and logs.
C6_OrderDetailSucceeds ==
    \A p \in Workers :
        (resp[p].route = "order_details" /\ resp[p].authed
            /\ resp[p].arg.order_id \in DOMAIN orders /\ ~resp[p].arg.raises)
        => /\ resp[p].success
           /\ DOMAIN resp[p].body = OrderDetailKeys

----------------------------------------------------------------------------
(* The read-only repository functions *)

\* the window and granularity a period keyword stands for
DocumentedStart(time_period, t) ==
    CASE time_period = "today" -> StartOfDay(t)
      [] time_period = "week" -> t - DaysPerWeek * HoursPerDay
      [] time_period = "month" -> StartOfMonth(t)
      [] OTHER -> MinTimestamp
DocumentedGranularity(time_period) ==
    CASE time_period = "today" -> "hour"
      [] time_period = "week" -> "day"
      [] time_period = "month" -> "day"
      [] OTHER -> "month"
DocumentedOrders(time_period) == OrdersBetween(DocumentedStart(time_period, now), now)

\* C7 (as claimed): for each of today, week, month and all, a call of
\* get_order_statistics struck by no data-access fault returns the four
\* result sets, computed over the window from the documented start to now in
\* the documented granularity.
C7_StatisticsPerPeriod ==
    (query.fn = "get_order_statistics" /\ ~query.raises)
    => /\ query.result.keys = StatsKeys
       /\ query.result.orders_timeline =
             OrdersTimeline(DocumentedOrders(query.time_period),
                            DocumentedGranularity(query.time_period))
       /\ query.result.top_items \in TopItemResults(DocumentedOrders(query.time_period))
       /\ query.result.status_distribution
             \in StatusResults(DocumentedOrders(query.time_period))
       /\ query.result.totals = Totals(DocumentedOrders(query.time_period))

\* C8: a call get_all_orders(page, perPage, status, search) with page >= 1,
\* struck by no fault, returns total = N, the number of orders matching the
\* filters, and as rows the entries (page-1)*perPage+1 .. min(page*perPage, N)
\* of an ordering of the matching orders by order_date, newest first (none
\* when the page lies past the end), each order at most once.
C8_PageOfNewestFirst ==
    (query.fn = "get_all_orders" /\ query.page >= 1 /\ ~query.raises)
    => LET M == {o \in DOMAIN orders : OrderMatches(o, query.status, query.search)}
           N == Cardinality(M)
           lo == (query.page - 1) * query.per_page + 1
           hi == IF query.page * query.per_page <= N
                 THEN query.page * query.per_page ELSE N
           rows == query.result.rows
       IN /\ query.result.total = N
          /\ Len(rows) = IF hi >= lo THEN hi - lo + 1 ELSE 0
          /\ \A i, j \in DOMAIN rows : rows[i].order_id = rows[j].order_id => i = j
          /\ \E s \in [1 .. N -> M] :
                /\ \A i, j \in 1 .. N : s[i] = s[j] => i = j
                /\ \A i \in 1 .. N - 1 :
                      orders[s[i]].order_date >= orders[s[i + 1]].order_date
                /\ \A i \in DOMAIN rows : rows[i].order_id = s[lo + i - 1]

\* page 2 of three matching orders, one per page, two of them of one date
C8_Witness ==
    /\ query.fn = "get_all_orders" /\ ~query.raises
    /\ query.page = 2 /\ query.per_page = 1 /\ query.status = "" /\ query.search = <<>>
    /\ query.result.total = 3 /\ Len(query.result.rows) = 1
    /\ \E o1, o2 \in DOMAIN orders : o1 # o2 /\ orders[o1].order_date = orders[o2].order_date

IsZero(v) == ~v.isnull /\ v.n = 0
ZeroTotals(totals) ==
    /\ totals.keys = TotalsKeys
    /\ totals.total_orders = 0
    /\ IsZero(totals.total_revenue)
    /\ IsZero(totals.avg_order_value)

\* C10 (as claimed): when the window of today or of the month holds no order
\* and no fault strikes, the totals get_order_statistics returns, the totals
\* in the JSON of /admin/api/statistics and the totals handed to the
\* statistics page are total_orders = 0, total_revenue = 0 and
\* avg_order_value = 0, none of them null.
C10_EmptyWindowTotalsZero ==
    /\ (query.fn = "get_order_statistics" /\ ~query.raises
           /\ query.time_period \in {"today", "month"}
           /\ DocumentedOrders(query.time_period) = {})
       => ZeroTotals(query.result.totals)
    /\ \A p \in Workers :
          (resp[p].route \in {"api_statistics", "statistics"} /\ resp[p].authed
              /\ ~resp[p].arg.raises /\ resp[p].arg.period \in {"today", "month"}
              /\ DocumentedOrders(resp[p].arg.period) = {})
          => IF resp[p].route = "api_statistics"
             THEN ZeroTotals(resp[p].body.totals)
             ELSE ZeroTotals(resp[p].body.stats.totals)

----------------------------------------------------------------------------
(* Data-access faults of the read-only repository functions *)

\* C11: a data-access fault inside a read-only repository function reaches
\* the caller as a failure that differs from a legitimate not-found or empty
\* result: the order-detail endpoint, asked for an order that exists while a
\* query of get_order_details raises, does not answer "Order not found".
C11_FaultIsNotNotFound ==
    \A p \in Workers :
        (/\ resp[p].route = "order_details"
         /\ resp[p].kind = "json"
         /\ resp[p].arg.raises
         /\ resp[p].arg.order_id \in DOMAIN orders)
        => resp[p].message # "Order not found"

----------------------------------------------------------------------------
(* prepare_chart_data: limits, shape, failure, status labels and colours *)

Charted == query.fn = "prepare_chart_data"
\* no exception is raised while the three charts are shaped
ShapingSucceeds ==
    ~ChartShapingFails(query.orders_data, query.top_items, query.status_data)

ChartKeys == {"timeline", "items", "status"}
HasChartShape(r) ==
    /\ DOMAIN r = ChartKeys
    /\ DOMAIN r.timeline = {"labels", "orders", "revenue"}
    /\ DOMAIN r.items = {"labels", "quantities", "revenues"}
    /\ DOMAIN r.status = {"labels", "values", "colors"}

\* the number of entries a chart keeps of n rows under a limit
Kept(n, limit) == IF n > limit THEN limit ELSE n

\* C12: prepare_chart_data returns a result of the documented shape for
\* every input; when the shaping succeeds, the timeline holds the first 20
\* buckets in input order when given more than 20 and all of them otherwise,
\* and the items chart holds the first 10 items when given more than 10 and
\* all of them otherwise.
C12_LimitsAndShape ==
    Charted =>
        /\ HasChartShape(query.result)
        /\ ShapingSucceeds =>
              LET t == query.result.timeline
                  it == query.result.items
                  od == query.orders_data.items
                  ti == query.top_items.items
              IN /\ Len(t.labels) = Kept(Len(od), 20)
                 /\ Len(t.orders) = Kept(Len(od), 20)
                 /\ Len(t.revenue) = Kept(Len(od), 20)
                 /\ \A i \in 1 .. Kept(Len(od), 20) :
                       /\ t.labels[i] = TimelineLabel(od[i])
                       /\ t.orders[i] = DictGet(od[i], "order_count", 0)
                 /\ Len(it.labels) = Kept(Len(ti), 10)
                 /\ Len(it.quantities) = Kept(Len(ti), 10)
                 /\ Len(it.revenues) = Kept(Len(ti), 10)
                 /\ \A i \in 1 .. Kept(Len(ti), 10) :
                       it.quantities[i] = DictGet(ti[i], "total_quantity", 0)

\* more than 20 buckets and more than 10 items are handed in and shaped
C12_Witness ==
    /\ Charted /\ ShapingSucceeds
    /\ Len(query.orders_data.items) > 20
    /\ Len(query.top_items.items) > 10
    /\ Len(query.result.timeline.labels) = 20
    /\ Len(query.result.items.labels) = 10

AllArraysEmpty(r) ==
    /\ r.timeline.labels = <<>> /\ r.timeline.orders = <<>> /\ r.timeline.revenue = <<>>
    /\ r.items.labels = <<>> /\ r.items.quantities = <<>> /\ r.items.revenues = <<>>
    /\ r.status.labels = <<>> /\ r.status.values = <<>> /\ r.status.colors = <<>>

\* C13: prepare_chart_data returns for every input, malformed rows and
\* inputs that are no sequences included, and whenever the shaping of any of
\* the three charts fails the result is the all-empty structure.
C13_FailureIsAllEmpty ==
    Charted =>
        /\ HasChartShape(query.result)
        /\ ~ShapingSucceeds => AllArraysEmpty(query.result)

\* the timeline is well-formed and not empty, the shaping of the status
\* chart fails
C13_Witness ==
    /\ Charted
    /\ ~TimelineLoopRaises(query.orders_data)
    /\ query.orders_data.items # <<>>
    /\ ~ItemsLoopRaises(query.top_items)
    /\ StatusLoopRaises(query.status_data)
    /\ AllArraysEmpty(query.result)

DeliveredAndUnknown ==
    PyList(<<[status |-> PyStr(Chars("delivered")), count |-> 7],
             [status |-> PyStr(Chars("unknown_status")), count |-> 1]>>)

\* the status of row i of the status distribution
StatusOfRow(i) == DictGet(query.status_data.items[i], "status", UnknownStatus).chars

\* C14 as amended: when the shaping succeeds there is one label per status
\* row, the status title-cased as Python's str.title does it (every letter
\* that follows a character that is no letter is upper-cased), and at the
\* same index the colour the table assigns to the lower-cased status, or
\* the fallback colour; for "delivered" and "unknown_status" the labels are
\* "Delivered" and "Unknown_Status" and the colours the delivered colour and
\* the fallback colour.
C14_StatusLabelsAndColours ==
    (Charted /\ ShapingSucceeds) =>
        LET st == query.result.status
            n == Len(query.status_data.items)
        IN /\ Len(st.labels) = n /\ Len(st.colors) = n /\ Len(st.values) = n
           /\ \A i \in 1 .. n :
                 /\ str_lower(st.labels[i]) = str_lower(StatusOfRow(i))
                 /\ \A j \in 1 .. Len(st.labels[i]) :
                       IsCased(st.labels[i][j]) =>
                          (IsUpper(st.labels[i][j])
                              <=> (j = 1 \/ ~IsCased(st.labels[i][j - 1])))
                 /\ st.colors[i] = StatusColor(str_lower(StatusOfRow(i)))
           /\ query.status_data = DeliveredAndUnknown =>
                 /\ st.labels = << <<"D", "e", "l", "i", "v", "e", "r", "e", "d">>,
                                   <<"U", "n", "k", "n", "o", "w", "n", "_",
                                     "S", "t", "a", "t", "u", "s">> >>
                 /\ st.colors = <<"#28a745", "#6c757d">>

C14_Witness ==
    /\ Charted /\ ShapingSucceeds
    /\ query.status_data = DeliveredAndUnknown
    /\ query.result.status.colors = <<"#28a745", "#6c757d">>

\* C14 as stated: for "delivered" and "unknown_status" the labels are
\* "Delivered" and "Unknown_status".
C14_UnknownStatusLabelAsStated ==
    (Charted /\ ShapingSucceeds /\ query.status_data = DeliveredAndUnknown) =>
        query.result.status.labels =
            << <<"D", "e", "l", "i", "v", "e", "r", "e", "d">>,
               <<"U", "n", "k", "n", "o", "w", "n", "_", "s", "t", "a", "t", "u", "s">> >>

----------------------------------------------------------------------------
(* Connections *)

\* C15: every connection a repository operation or a route opened is closed
\* when the operation has returned, on the success path, on the not-found
\* path and when a query raised: no worker at rest holds an open connection.
C15_ConnectionsClosed ==
    \A p \in Workers : pc[p] = "idle" => conns[p] = 0

\* C16: a request opens one database connection: it never holds two at the
\* same time and never opens a second one after the first.
C16_OneConnectionPerRequest ==
    \A p \in Workers : resp[p].conn.opened <= 1 /\ resp[p].conn.peak <= 1

----------------------------------------------------------------------------
(* The update-status route: the status enumeration, the empty status *)

\* C17: the status of every order is one of pending, confirmed, processing,
\* shipped, delivered, cancelled, refunded.
C17_StatusInEnum ==
    \A o \in DOMAIN orders :
        orders[o].status \in {"pending", "confirmed", "processing", "shipped",
                              "delivered", "cancelled", "refunded"}

\* the posted status field is missing, empty or only whitespace
BlankStatus(field) ==
    field.tag # "str" \/ \A i \in DOMAIN field.chars : field.chars[i] \in Whitespace

\* the request worker p last answered, or is handling, is an update-status
\* request that passed the login gate
UpdateRequest(p) ==
    resp[p].route = "update_status" /\ resp[p].kind \in {"json", "pending"}

\* C18: an update-status request whose status field is missing, empty or
\* only whitespace is answered with the failure {success: false, message}
\* and runs nothing: update_order_status is not entered, no connection is
\* opened, no statement is executed, and the tables are as they were.
C18_BlankStatusRunsNoQuery ==
    \A p \in Workers :
        (UpdateRequest(p) /\ BlankStatus(resp[p].arg.status))
        => /\ resp[p].kind = "json"
           /\ ~resp[p].success
           /\ resp[p].message # ""
           /\ pc[p] = "idle" /\ call[p] = NoCall
           /\ resp[p].conn = NoConn /\ conns[p] = 0
           /\ db_ops[p] = 0
           /\ txn[p] = NoWrites

\* a logged-in request with a whitespace status was answered
C18_Witness ==
    \E p \in Workers :
        /\ UpdateRequest(p)
        /\ resp[p].arg.status = PyStr(<<" ", " ">>)
        /\ resp[p].message = "Status is required"

\* C19: every failure of an /admin/order/... or /admin/api/... endpoint
\* called with a valid session is answered by a JSON object with success =
\* false and a message: so is a data-access fault inside the order-detail
\* and the statistics endpoints.
C19_FaultIsJsonFailure ==
    \A p \in Workers :
        (/\ resp[p].route \in {"order_details", "api_statistics"}
         /\ resp[p].kind = "json"
         /\ resp[p].arg.raises)
        => ~resp[p].success /\ resp[p].message # ""

----------------------------------------------------------------------------
(* get_order_details on a missing order *)

\* C20: get_order_details on an order id that does not exist returns the
\* not-found signal, no result object and so no items, customer, payment or
\* logs, and executes no statement after the order lookup.
C20_MissingOrderIsNone ==
    (/\ query.fn = "get_order_details"
     /\ ~query.raises
     /\ query.order_id \notin DOMAIN orders)
    => /\ query.result.isnone
       /\ query.result.d = <<>>
       /\ query.ops = 1
       /\ conns[1] = 0

\* the table holds orders and the id asked for is not among them
C20_Witness ==
    /\ query.fn = "get_order_details"
    /\ ~query.raises
    /\ DOMAIN orders # {}
    /\ query.order_id \notin DOMAIN orders
    /\ query.result.isnone

----------------------------------------------------------------------------
(* get_todays_orders *)

\* C21: get_todays_orders returns only orders dated today, newest first, and
\* never more than a fixed maximum number of rows (the twenty of the
\* older module); with no order of today it returns the empty sequence
C21_TodaysOrdersBounded ==
    (query.fn = "get_todays_orders" /\ ~query.raises)
    => LET rows == query.result
       IN /\ \A i \in DOMAIN rows :
                StartOfDay(rows[i].order_date) = StartOfDay(now)
          /\ \A i \in 1 .. Len(rows) - 1 :
                rows[i].order_date >= rows[i + 1].order_date
          /\ Len(rows) <= OappTodaysLimit
          /\ (TodaysOrders = {} => rows = <<>>)

\* the same without the maximum: every order of today once, newest first
C21_TodaysOrdersUnbounded ==
    (query.fn = "get_todays_orders" /\ ~query.raises)
    => LET rows == query.result
       IN /\ {rows[i].order_id : i \in DOMAIN rows} = TodaysOrders
          /\ Len(rows) = Cardinality(TodaysOrders)
          /\ \A i \in 1 .. Len(rows) - 1 :
                rows[i].order_date >= rows[i + 1].order_date

----------------------------------------------------------------------------
(* init_admin_tables *)

\* the number of rows of admin_settings with key k
SettingRows(k) == Cardinality({i \in DOMAIN admin_db.settings : admin_db.settings[i] = k})

\* C22: after a run of init_admin_tables that raises nothing, whatever
\* subset of the four admin tables existed before, all four exist, and
\* after any number of runs every default setting key is there once
C22_AllTablesAfterInit ==
    (query.fn = "init_admin_tables" /\ ~query.raised)
    => /\ admin_db.tables = AdminTables
       /\ \A i \in DOMAIN DefaultSettingKeys : SettingRows(DefaultSettingKeys[i]) = 1

\* what the code keeps of it: the tables are all there when admin_settings
\* was absent before, and the settings are there once in every case
C22_TablesWhenSettingsAbsent ==
    (query.fn = "init_admin_tables" /\ ~query.raised)
    => /\ "admin_settings" \notin query.first => admin_db.tables = AdminTables
       /\ \A i \in DOMAIN DefaultSettingKeys : SettingRows(DefaultSettingKeys[i]) = 1

----------------------------------------------------------------------------
(* The frame of the operations *)

\* C23: in every step of every operation, an order changes only in the
\* commit of an update_order_status on that order, and only in its status,
\* which becomes the status of the call; no order appears or disappears;
\* the existing order_logs rows stay as they are and none is removed; rows
\* are added to order_logs only by such a commit; payments, order items and
\* customers never change (so every read leaves the tables as they were)
C23_FrameOfUpdate ==
    [][/\ payments' = payments /\ order_items' = order_items /\ users' = users
       /\ DOMAIN orders' = DOMAIN orders
       /\ Len(order_logs') >= Len(order_logs)
       /\ SubSeq(order_logs', 1, Len(order_logs)) = order_logs
       /\ \A o \in DOMAIN orders :
             orders'[o] # orders[o]
             => \E p \in Workers :
                   /\ pc[p] = "commit" /\ pc'[p] = "return"
                   /\ call[p].order_id = o
                   /\ orders'[o] = [orders[o] EXCEPT !.status = call[p].new_status]
       /\ order_logs' # order_logs
             => \E p \in Workers :
                   /\ pc[p] = "commit" /\ pc'[p] = "return"
                   /\ \A i \in Len(order_logs) + 1 .. Len(order_logs') :
                         order_logs'[i].order_id = call[p].order_id]_vars

\* an update has committed a status that differs from the one before; the
\* other order is as it was
C23_Witness ==
    \E p \in Workers :
        /\ Returned(p) /\ OrderExisted(p) /\ ret[p].ok
        /\ LET o == call[p].order_id
           IN /\ orders[o].status # pre[p].orders[o].status
              /\ orders[o] = [pre[p].orders[o] EXCEPT !.status = call[p].new_status]
              /\ \A x \in DOMAIN orders \ {o} : orders[x] = pre[p].orders[x]
              /\ DOMAIN orders \ {o} # {}

----------------------------------------------------------------------------
(* utils.py: get_time_period_dates and format_currency *)

ValidPeriods == {"today", "week", "month", "all"}

\* C24: for each of today, week, month and all, get_time_period_dates
\* returns a pair with start <= end, whose start is the boundary of the
\* keyword (midnight of today, now less seven days, midnight of the first
\* of the month, the minimum timestamp) and whose end is now
C24_PeriodDates ==
    (query.fn = "get_time_period_dates" /\ query.period \in ValidPeriods)
    => LET r == query.result
       IN /\ ~DatetimeLe(r.start, r.end).raises
          /\ DatetimeLe(r.start, r.end).value
          /\ r.start.t = DocumentedStart(query.period, now)
          /\ r.end = ist_now

\* the same with the two datetimes read as ticks, whatever their time
\* zones: the boundaries are as stated, and start is not after end
C24_PeriodTicks ==
    (query.fn = "get_time_period_dates" /\ query.period \in ValidPeriods)
    => LET r == query.result
       IN /\ r.start.t <= r.end.t
          /\ r.start.t = DocumentedStart(query.period, now)
          /\ r.end = ist_now

\* the amounts float() reads
IsNumericAmount(amount) ==
    IF IsSqlNumber(amount) THEN ~amount.isnull
    ELSE \/ amount.tag = "int"
         \/ amount.tag = "str" /\ PgIntegerIn(amount.chars).ok

\* C25: format_currency returns a text for every amount; the zero-amount
\* text for None and for every amount that is no number; for a number a
\* text that starts with the currency symbol
C25_FormatCurrencyTotal ==
    query.fn = "format_currency"
    => /\ query.result # <<"r", "a", "i", "s", "e", "s">>
       /\ ~IsNumericAmount(query.amount) => query.result = ZeroAmountText
       /\ IsNumericAmount(query.amount)
             => /\ Len(query.result) > 1
                /\ query.result[1] = CurrencySymbol
       /\ query.amount = PyInt(1234567)
             => query.result = <<CurrencySymbol, "1", ",", "2", "3", "4", ",",
                                 "5", "6", "7", ".", "0", "0">>

\* a word that is no number has been formatted as the zero amount
C25_Witness ==
    /\ query.fn = "format_currency"
    /\ query.amount = NotANumber
    /\ query.result = ZeroAmountText

----------------------------------------------------------------------------
(* Concurrent connections *)

\* the committed log rows of order o, in commit order
LogRowsOf(o) == SelectSeq(order_logs, LAMBDA r : r.order_id = o)

\* C26: with update_order_status calls on one order running concurrently,
\* the committed log rows of the order form a chain: the first row's
\* old_status is the initial status, the old_status of every later row is
\* the new_status of the row before it, and the status of the order is the
\* new_status of the last row
C26_LogChain ==
    \A o \in DOMAIN InitialOrders :
        LET rows == LogRowsOf(o)
        IN rows # <<>>
           => /\ rows[1].old_status = InitialOrders[o].status
              /\ \A i \in 1 .. Len(rows) - 1 : rows[i + 1].old_status = rows[i].new_status
              /\ orders[o].status = rows[Len(rows)].new_status

RECURSIVE SumField(_, _)
\* the sum of the integer column field over the rows
SumField(rows, field) ==
    IF rows = <<>> THEN 0 ELSE Head(rows)[field] + SumField(Tail(rows), field)

RECURSIVE SumRevenue(_)
\* the sum of total_revenue over the rows
SumRevenue(rows) ==
    IF rows = <<>> THEN 0 ELSE Head(rows).total_revenue.n + SumRevenue(Tail(rows))

\* C27: the four results of one get_order_statistics call describe one set
\* of orders, whatever other connections commit between its queries: the
\* status counts and the timeline counts both add up to totals.total_orders
\* and the timeline revenues to totals.total_revenue (NULL read as zero)
C27_StatsOneSnapshot ==
    (query.fn = "get_order_statistics" /\ query.step = 4)
    => LET r == query.result
       IN /\ SumField(r.status_distribution, "count") = r.totals.total_orders
          /\ SumField(r.orders_timeline, "order_count") = r.totals.total_orders
          /\ SumRevenue(r.orders_timeline) = r.totals.total_revenue.n

----------------------------------------------------------------------------
(* The session over login, logout and page requests *)

\* the step is the answer of worker p to a POST /admin/login
LoginStep(p) == pc[p] = "idle" /\ pc'[p] = "idle" /\ resp'[p].route = "login"

\* t is the text cs without the blanks at its two ends
IsTrimOf(t, cs) ==
    \E a \in 0 .. Len(cs) : \E b \in a .. Len(cs) :
        /\ SubSeq(cs, a + 1, b) = t
        /\ \A i \in (1 .. a) \cup (b + 1 .. Len(cs)) : cs[i] \in {" ", "\t", "\n"}
        /\ t # <<>> => t[1] \notin {" ", "\t", "\n"} /\ t[Len(t)] \notin {" ", "\t", "\n"}

\* the posted credentials, trimmed, are the configured ones
GoodCredentials(arg) ==
    /\ IsTrimOf(ADMIN_USERNAME, arg.username)
    /\ IsTrimOf(ADMIN_PASSWORD, arg.password)

\* the parts of the claim that do not depend on the session a failed login
\* meets: admin_logged_in appears only in a login step with good
\* credentials, and then it does appear; with it, the username and the
\* login time are in the session; a logout removes it; a gated route
\* requested without it answers with the redirect to the login page
SessionSteps(p) ==
    /\ ("admin_logged_in" \notin session.keys /\ "admin_logged_in" \in session'.keys)
          => LoginStep(p) /\ GoodCredentials(resp'[p].arg)
    /\ (LoginStep(p) /\ GoodCredentials(resp'[p].arg))
          => "admin_logged_in" \in session'.keys
    /\ "admin_logged_in" \in session'.keys
          => {"admin_username", "login_time"} \subseteq session'.keys
    /\ (pc[p] = "idle" /\ pc'[p] = "idle" /\ resp'[p].route = "logout")
          => session'.keys = {}
    /\ (pc[p] = "idle" /\ "admin_logged_in" \notin session.keys
           /\ resp'[p].route \in ProtectedRoutes)
          => resp'[p].kind = "redirect_login" /\ session' = session

\* C28 (as claimed): ... and a login with other or empty credentials
\* leaves the session without admin_logged_in
C28_SessionAsStated ==
    [][\A p \in {1} :
          /\ SessionSteps(p)
          /\ (LoginStep(p) /\ ~GoodCredentials(resp'[p].arg))
                => "admin_logged_in" \notin session'.keys]_vars

\* C28: over every sequence of login, logout and page requests on the
\* session, admin_logged_in enters the session only by a login whose
\* trimmed username and password are the configured ones, and stays until
\* a logout; a login with other or empty credentials leaves the session
\* as it was, so without admin_logged_in where it had none; with
\* admin_logged_in the session holds admin_username and login_time; after
\* a logout every gated route redirects to the login page until the next
\* such login
C28_SessionLifecycle ==
    [][\A p \in {1} :
          /\ SessionSteps(p)
          /\ (LoginStep(p) /\ ~GoodCredentials(resp'[p].arg)) => session' = session
          /\ ("admin_logged_in" \in session.keys
                 /\ "admin_logged_in" \notin session'.keys)
                => resp'[p].route = "logout"]_vars

\* the session is logged in, by a login whose fields carried spaces, or
\* it is still logged in after a login with a wrong password
C28_Witness ==
    /\ "admin_logged_in" \in session.keys
    /\ resp[1].route = "login"
    /\ ~GoodCredentials(resp[1].arg)
    /\ session.admin_username = ADMIN_USERNAME

----------------------------------------------------------------------------
(* prepare_chart_data: parallel arrays *)

\* C29: in every result of prepare_chart_data the arrays of each chart
\* have one length, and when the shaping succeeds entry i of every array is
\* made from row i of the input of the chart
C29_ParallelArrays ==
    Charted =>
        LET t == query.result.timeline
            it == query.result.items
            st == query.result.status
        IN /\ Len(t.labels) = Len(t.orders) /\ Len(t.orders) = Len(t.revenue)
           /\ Len(it.labels) = Len(it.quantities) /\ Len(it.quantities) = Len(it.revenues)
           /\ Len(st.labels) = Len(st.values) /\ Len(st.values) = Len(st.colors)
           /\ ShapingSucceeds =>
                 LET od == query.orders_data.items
                     ti == query.top_items.items
                     sd == query.status_data.items
                 IN /\ \A i \in DOMAIN t.labels :
                          /\ i <= Len(od)
                          /\ t.labels[i] = TimelineLabel(od[i])
                          /\ t.orders[i] = DictGet(od[i], "order_count", 0)
                          /\ t.revenue[i] =
                                FloatOrZero(DictGet(od[i], "total_revenue", PyInt(0)))
                    /\ \A i \in DOMAIN it.labels :
                          /\ i <= Len(ti)
                          /\ it.labels[i] =
                                ItemLabel(DictGet(ti[i], "item_name", UnknownItemName).chars)
                          /\ it.quantities[i] = DictGet(ti[i], "total_quantity", 0)
                          /\ it.revenues[i] =
                                FloatOrZero(DictGet(ti[i], "total_revenue", PyInt(0)))
                    /\ \A i \in DOMAIN st.labels :
                          /\ i <= Len(sd)
                          /\ str_lower(st.labels[i]) =
                                str_lower(DictGet(sd[i], "status", UnknownStatus).chars)
                          /\ st.values[i] = DictGet(sd[i], "count", 0)
                          /\ st.colors[i] = StatusColor(str_lower(st.labels[i]))

\* twenty buckets, the last without revenue, an item and two statuses of
\* different colours have been shaped
C29_Witness ==
    /\ Charted /\ ShapingSucceeds
    /\ Len(query.result.timeline.labels) = ChartPointsLimit
    /\ Len(query.orders_data.items) = ChartPointsLimit
    /\ DictGet(query.orders_data.items[ChartPointsLimit], "total_revenue", PyInt(0)) = SqlNull
    /\ Len(query.result.items.labels) >= 1
    /\ Len(query.result.status.colors) = 2
    /\ query.result.status.colors[1] # query.result.status.colors[2]

----------------------------------------------------------------------------
(* The order list route *)

\* the view of an answered list request holds the page that was asked for
ViewOfPage(r) ==
    LET v == r.body
        a == r.arg
    IN /\ \E fetched \in get_all_orders(a.page, 20, a.status, a.search, FALSE) :
             v.orders = fetched.rows /\ v.total = fetched.total
       /\ v.page = a.page
       /\ v.current_status = a.status
       /\ v.current_search = a.search
       /\ v.total_pages = IF v.total = 0 THEN 1 ELSE (v.total + 19) \div 20

\* C30: a request to /admin/orders with page = p >= 1, status = s and
\* search = q, answered without a fault, hands the view the rows of page p
\* under those filters, page = p, current_status = s, current_search = q
\* and total_pages = ceil(total / 20), 1 when total is 0
C30_ViewGetsFetchedPage ==
    \A p \in Workers :
        (resp[p].route = "orders" /\ resp[p].kind = "html"
            /\ resp[p].arg.page >= 1 /\ ~resp[p].arg.raises)
        => ViewOfPage(resp[p])

\* the same for the route of 9app.py
C30_ViewGetsFetchedPage9 ==
    \A p \in Workers :
        (resp[p].route = "9app.orders" /\ resp[p].kind = "html"
            /\ resp[p].arg.page >= 1 /\ ~resp[p].arg.raises)
        => ViewOfPage(resp[p])

\* what the view of app.py does get: the fetched rows and total, and the
\* number of pages
C30_ViewGetsFetchedRows ==
    \A p \in Workers :
        (resp[p].route = "orders" /\ resp[p].kind = "html"
            /\ resp[p].arg.page >= 1 /\ ~resp[p].arg.raises)
        => LET v == resp[p].body
               a == resp[p].arg
           IN /\ \E fetched \in get_all_orders(a.page, 20, a.status, a.search, FALSE) :
                    v.orders = fetched.rows /\ v.total = fetched.total
              /\ v.total_pages = IF v.total = 0 THEN 1 ELSE (v.total + 19) \div 20

====
